---- MODULE Spec2Model ----
(***************************************************************************)
(* Model of just's command-line configuration layer (src/src/config.rs):   *)
(* the clap argument definitions of Config::app, Config::from_matches and  *)
(* Config::run_subcommand.                                                 *)
(*                                                                         *)
(* A string is a sequence of characters.  A character is a one-letter      *)
(* string; a run of letters inside a long flag (the "dry-run" of           *)
(* "--dry-run") is written as one element, which belongs to no character   *)
(* class the code tests for.                                               *)
(*                                                                         *)
(* --color and --verbose, which no property below reads, are left out of   *)
(* the command lines.                                                      *)
(*                                                                         *)
(* A command line is a sequence of occurrences: a flag, an option with the *)
(* values that follow it, or a positional word.  An option may come with   *)
(* fewer values than Config::app asks for; clap's validation then rejects  *)
(* the line, or, for --set, Config::from_matches panics on unwrap().       *)
(*                                                                         *)
(* Config::init and Config::edit are modelled as the separate system calls *)
(* they make, so that other processes can act on the justfile in between.  *)
(***************************************************************************)
EXTENDS Integers, Sequences, FiniteSets, TLC

VARIABLES
  argv,       \* the argument occurrences clap has consumed so far
  matcher,    \* clap's ArgMatcher: per Arg, presence, occurrences, values
  cache,      \* clap's Parser.cache: the Arg parsed last
  pending,    \* clap's Parser.overrides: (overridden, overriding) pairs
  trailing,   \* clap's AppSettings::TrailingValues
  phase,      \* where the process is
  outcome,    \* the clap error, the ConfigError or the Config
  job,        \* run_subcommand: the Config being run and the world it runs in
  pc,         \* run_subcommand: position in the function
  effects,    \* run_subcommand: the side effects so far, in order
  ret         \* run_subcommand: the returned Result

vars == <<argv, matcher, cache, pending, trailing, phase, outcome, job, pc, effects, ret>>

\* Option<T>: None is the empty sequence, Some(x) the one-element sequence.
None == <<>>

Some(x) == <<x>>

\* ---------------------------------------------------------------- bounds

MaxArgs == 3

\* ------------------------------------------------------------- constants

DEFAULT_SHELL == <<"s", "h">>
DEFAULT_SHELL_ARG == <<"-", "c", "u">>

cmd_COMPLETIONS == "COMPLETIONS"
cmd_DUMP == "DUMP"
cmd_EDIT == "EDIT"
cmd_EVALUATE == "EVALUATE"
cmd_INIT == "INIT"
cmd_LIST == "LIST"
cmd_SHOW == "SHOW"
cmd_SUMMARY == "SUMMARY"
cmd_VARIABLES == "VARIABLES"

cmd_ALL ==
  <<cmd_COMPLETIONS, cmd_DUMP, cmd_EDIT, cmd_INIT, cmd_EVALUATE, cmd_LIST,
    cmd_SHOW, cmd_SUMMARY, cmd_VARIABLES>>

cmd_ARGLESS ==
  <<cmd_COMPLETIONS, cmd_DUMP, cmd_EDIT, cmd_INIT, cmd_LIST, cmd_SHOW,
    cmd_SUMMARY, cmd_VARIABLES>>

arg_ARGUMENTS == "ARGUMENTS"
arg_CLEAR_SHELL_ARGS == "CLEAR-SHELL-ARGS"
arg_DRY_RUN == "DRY-RUN"
arg_HIGHLIGHT == "HIGHLIGHT"
arg_JUSTFILE == "JUSTFILE"
arg_NO_HIGHLIGHT == "NO-HIGHLIGHT"
arg_QUIET == "QUIET"
arg_SET == "SET"
arg_SHELL == "SHELL"
arg_SHELL_ARG == "SHELL-ARG"
arg_WORKING_DIRECTORY == "WORKING-DIRECTORY"

Range(s) == {s[i] : i \in DOMAIN s}

\* --------------------------------------------------- Config::app (clap)

\* Every Arg that Config::app declares and the model uses.
Args ==
  {arg_ARGUMENTS, arg_CLEAR_SHELL_ARGS, arg_DRY_RUN, arg_HIGHLIGHT, arg_JUSTFILE,
   arg_NO_HIGHLIGHT, arg_QUIET, arg_SET, arg_SHELL, arg_SHELL_ARG,
   arg_WORKING_DIRECTORY} \cup Range(cmd_ALL)

\* .long(...) of each Arg, the text after "--".
Long(a) ==
  CASE a = arg_CLEAR_SHELL_ARGS -> "clear-shell-args"
    [] a = arg_DRY_RUN -> "dry-run"
    [] a = arg_HIGHLIGHT -> "highlight"
    [] a = arg_JUSTFILE -> "justfile"
    [] a = arg_NO_HIGHLIGHT -> "no-highlight"
    [] a = arg_QUIET -> "quiet"
    [] a = arg_SET -> "set"
    [] a = arg_SHELL -> "shell"
    [] a = arg_SHELL_ARG -> "shell-arg"
    [] a = arg_WORKING_DIRECTORY -> "working-directory"
    [] a = cmd_COMPLETIONS -> "completions"
    [] a = cmd_DUMP -> "dump"
    [] a = cmd_EDIT -> "edit"
    [] a = cmd_EVALUATE -> "evaluate"
    [] a = cmd_INIT -> "init"
    [] a = cmd_LIST -> "list"
    [] a = cmd_SHOW -> "show"
    [] a = cmd_SUMMARY -> "summary"
    [] a = cmd_VARIABLES -> "variables"

\* .multiple(true)
Multiple(a) == a \in {arg_SET, arg_SHELL_ARG, arg_ARGUMENTS}

\* .overrides_with(...)
OverridesWith(a) ==
  CASE a = arg_HIGHLIGHT -> <<arg_NO_HIGHLIGHT>>
    [] a = arg_NO_HIGHLIGHT -> <<arg_HIGHLIGHT>>
    [] a = arg_SHELL_ARG -> <<arg_CLEAR_SHELL_ARGS>>
    [] a = arg_CLEAR_SHELL_ARGS -> <<arg_SHELL_ARG>>
    [] OTHER -> <<>>

ConflictsInGroupOnly(a) ==
  CASE a \in Range(cmd_ALL) -> Range(cmd_ALL) \ {a}
    [] OTHER -> {}

\* .conflicts_with(...), and the members of the non-multiple ArgGroup
\* SUBCOMMAND, which conflict with one another.
ConflictsWith(a) ==
  CASE a = arg_DRY_RUN -> {arg_QUIET}
    [] a = arg_QUIET -> {arg_DRY_RUN}
    [] a \in Range(cmd_ALL) -> Range(cmd_ALL) \ {a}
    [] OTHER -> {}

\* .requires(...)
Requires(a) ==
  CASE a = arg_WORKING_DIRECTORY -> {arg_JUSTFILE}
    [] OTHER -> {}

\* .takes_value(true)
TakesValue(a) ==
  a \in {arg_JUSTFILE, arg_SET, arg_SHELL, arg_SHELL_ARG, arg_WORKING_DIRECTORY,
         cmd_COMPLETIONS, cmd_SHOW}

\* .number_of_values(...)
NumberOfValues(a) ==
  CASE a = arg_SET -> Some(2)
    [] a = arg_SHELL_ARG -> Some(1)
    [] OTHER -> None

zsh == <<"z", "s", "h">>
bash == <<"b", "a", "s", "h">>
fish == <<"f", "i", "s", "h">>
powershell == <<"p", "o", "w", "e", "r", "s", "h", "e", "l", "l">>
elvish == <<"e", "l", "v", "i", "s", "h">>

\* .possible_values(&clap::Shell::variants())
PossibleValues(a) ==
  CASE a = cmd_COMPLETIONS -> Some({zsh, bash, fish, powershell, elvish})
    [] OTHER -> None

\* .set(ArgSettings::CaseInsensitive)
CaseInsensitive(a) == a = cmd_COMPLETIONS

\* .default_value(...)
DefaultValue(a) ==
  CASE a = arg_SHELL -> Some(DEFAULT_SHELL)
    [] a = arg_SHELL_ARG -> Some(DEFAULT_SHELL_ARG)
    [] OTHER -> None

\* ------------------------------------------------------- command lines

\* One occurrence on the command line: a flag, an option with its values, or
\* one positional word.
Occ(a, vals) == [arg |-> a, vals |-> vals]

FlagTokens ==
  {Occ(a, <<>>) : a \in {arg_DRY_RUN, arg_QUIET, arg_HIGHLIGHT, arg_NO_HIGHLIGHT,
                         arg_CLEAR_SHELL_ARGS, cmd_DUMP, cmd_EDIT, cmd_EVALUATE,
                         cmd_INIT, cmd_LIST, cmd_SUMMARY, cmd_VARIABLES}}

OptionTokens ==
  {Occ(arg_SHELL, << <<"t">> >>),
   Occ(arg_SHELL_ARG, << <<"a">> >>),
   Occ(arg_SHELL_ARG, << <<"b">> >>),
   Occ(arg_SET, << <<"f">>, <<"x">> >>),
   Occ(arg_SET, << <<"f">>, <<>> >>),
   Occ(arg_SET, << <<"b">>, <<"x">> >>),
   Occ(arg_JUSTFILE, << <<"/", "j">> >>),
   Occ(arg_WORKING_DIRECTORY, << <<"w", "/", ".">> >>),
   Occ(cmd_COMPLETIONS, << <<"z">> >>),
   Occ(cmd_COMPLETIONS, << <<"B", "A", "S", "H">> >>),
   Occ(cmd_SHOW, << <<"r">> >>),
   Occ(arg_SET, << <<"f">> >>),
   Occ(cmd_SHOW, <<>>)}

PositionalWords ==
  {<<"f", "=", "y">>, <<"f", "=">>, <<"=", "f">>, <<"b">>,
   <<"d", "/", "b">>, <<"d", "/">>, <<".", ".">>}

PositionalTokens == {Occ(arg_ARGUMENTS, <<w>>) : w \in PositionalWords}

Tokens == FlagTokens \cup OptionTokens \cup PositionalTokens

\* The words of the command line an occurrence was written as.
Raw(tok) ==
  IF tok.arg = arg_ARGUMENTS THEN tok.vals
  ELSE << <<"-", "-", Long(tok.arg)>> >> \o tok.vals

\* ------------------------------------------------- clap: the ArgMatcher

Absent == [present |-> FALSE, occurs |-> 0, vals |-> <<>>]

EmptyMatcher == [a \in Args |-> Absent]

\* ArgMatcher::remove
Remove(m, a) == [m EXCEPT ![a] = Absent]

\* One occurrence of Arg a with the values vals: inc_occurrence_of and add_val_to.
AddOccurrence(m, a, vals) ==
  [m EXCEPT ![a] = [present |-> TRUE, occurs |-> @.occurs + 1, vals |-> @.vals \o vals]]

\* ArgMatcher::process_arg_overrides for the Arg parsed last: every Arg it
\* overrides is dropped from the matcher if present, and the pair is remembered.
RECURSIVE ProcessFrom(_, _, _, _)
ProcessFrom(m, pend, c, i) ==
  IF i > Len(OverridesWith(c)) THEN [m |-> m, pending |-> pend]
  ELSE LET overr == OverridesWith(c)[i]
       IN ProcessFrom(IF m[overr].present THEN Remove(m, overr) ELSE m,
                      Append(pend, <<overr, c>>), c, i + 1)

ProcessArgOverrides(m, pend, c) ==
  IF c = None THEN [m |-> m, pending |-> pend] ELSE ProcessFrom(m, pend, c[1], 1)

\* Parser::remove_overrides: for each remembered pair in order, an overridden
\* Arg that is present again removes the Arg that had overridden it.
RECURSIVE RemoveOverrides(_, _)
RemoveOverrides(m, pend) ==
  IF pend = <<>> THEN m
  ELSE LET overr == Head(pend)[1]
           name == Head(pend)[2]
       IN RemoveOverrides(IF m[overr].present THEN Remove(m, name) ELSE m, Tail(pend))

\* Parser::add_defaults: an Arg with a default_value that is not in the matcher,
\* or is there without a value, gets the default as its value.
AddDefaults(m) ==
  [a \in Args |->
    IF m[a].vals = <<>> /\ DefaultValue(a) # None
    THEN [present |-> TRUE, occurs |-> m[a].occurs, vals |-> <<DefaultValue(a)[1]>>]
    ELSE m[a]]

\* An occurrence of an option that still waits for a value: the parser's
\* needs_val_of after it (ArgMatcher::needs_more_vals).
Incomplete(tok) ==
  /\ TakesValue(tok.arg)
  /\ IF NumberOfValues(tok.arg) # None
     THEN tok.vals = <<>> \/ Len(tok.vals) % NumberOfValues(tok.arg)[1] # 0
     ELSE tok.vals = <<>>

\* The option the parser still expects a value for when the command line ends.
NeedsValOf(line) ==
  IF line # <<>> /\ Incomplete(line[Len(line)])
     /\ \A i \in DOMAIN line : line[i].arg # arg_ARGUMENTS
  THEN Some(line[Len(line)].arg)
  ELSE None

\* A word that is written on the command line after an option waiting for a
\* value is that option's value: no positional word follows such an occurrence.
WellFormedLine(line) ==
  \A i \in 1..(Len(line) - 1) :
    (Incomplete(line[i]) /\ \A k \in 1..i : line[k].arg # arg_ARGUMENTS)
      => line[i + 1].arg # arg_ARGUMENTS

ascii_upper == <<"A", "B", "C", "D", "E", "F", "G", "H", "I", "J", "K", "L", "M",
                 "N", "O", "P", "Q", "R", "S", "T", "U", "V", "W", "X", "Y", "Z">>

ascii_lower == <<"a", "b", "c", "d", "e", "f", "g", "h", "i", "j", "k", "l", "m",
                 "n", "o", "p", "q", "r", "s", "t", "u", "v", "w", "x", "y", "z">>

to_ascii_lowercase(text) ==
  [i \in DOMAIN text |->
     IF \E k \in DOMAIN ascii_upper : ascii_upper[k] = text[i]
     THEN ascii_lower[CHOOSE k \in DOMAIN ascii_upper : ascii_upper[k] = text[i]]
     ELSE text[i]]

eq_ignore_ascii_case(s, t) == to_ascii_lowercase(s) = to_ascii_lowercase(t)

\* Validator::validate_arg_num_vals, validate_values and
\* validate_arg_num_occurs for one matched Arg: its first error, or "Ok".
ValidateArg(a, ma) ==
  IF /\ TakesValue(a) /\ NumberOfValues(a) # None
     /\ IF Multiple(a) THEN Len(ma.vals) % NumberOfValues(a)[1] # 0
        ELSE Len(ma.vals) # NumberOfValues(a)[1]
    THEN "WrongNumberOfValues"
  ELSE IF TakesValue(a) /\ ma.vals = <<>>
    THEN "EmptyValue"
  ELSE IF /\ PossibleValues(a) # None
          /\ \E i \in DOMAIN ma.vals :
               \A p \in PossibleValues(a)[1] :
                 IF CaseInsensitive(a) THEN ~eq_ignore_ascii_case(p, ma.vals[i])
                 ELSE p # ma.vals[i]
    THEN "InvalidValue"
  ELSE IF ma.occurs > 1 /\ ~Multiple(a)
    THEN "UnexpectedMultipleUsage"
  ELSE "Ok"

\* Validator::validate: an option left without its value at the end of the
\* line, then conflicts, then requirements, then every matched Arg. The matched
\* Args are visited in the order of a HashMap, so when several of them are in
\* error any of their errors can be the one reported: the result is the set of
\* the errors validate can return, {"Ok"} when it accepts.
Validate(m, needs_val_of) ==
  LET conflict == \E a \in Args : m[a].present /\ \E c \in ConflictsWith(a) : m[c].present
      required == \E a \in Args : m[a].present /\ \E r \in Requires(a) : ~m[r].present
      matched == {ValidateArg(a, m[a]) : a \in {b \in Args : m[b].present}} \ {"Ok"}
  IN IF needs_val_of # None /\ required THEN {"MissingRequiredArgument"}
     ELSE IF needs_val_of # None /\ m[needs_val_of[1]].vals = <<>> THEN {"EmptyValue"}
     ELSE IF conflict THEN {"ArgumentConflict"}
     ELSE IF required THEN {"MissingRequiredArgument"}
     ELSE IF matched # {} THEN matched
     ELSE {"Ok"}

\* Every word of a trailing occurrence is one more value of ARGUMENTS.
RECURSIVE AddTrailing(_, _)
AddTrailing(m, words) ==
  IF words = <<>> THEN m
  ELSE AddTrailing(AddOccurrence(m, arg_ARGUMENTS, <<Head(words)>>), Tail(words))

\* One iteration of the parser's loop over the command line.  With
\* AppSettings::TrailingVarArg the first positional word switches the parser to
\* trailing values: every later word is a value of ARGUMENTS.
ParseStep(st, tok) ==
  IF st.trailing
  THEN [st EXCEPT !.m = AddTrailing(st.m, Raw(tok))]
  ELSE LET p == ProcessArgOverrides(st.m, st.pending, st.cache)
       IN [m |-> AddOccurrence(p.m, tok.arg, tok.vals),
           cache |-> Some(tok.arg),
           pending |-> p.pending,
           trailing |-> tok.arg = arg_ARGUMENTS]

\* The end of the command line: the last Arg's overrides, remove_overrides,
\* defaults.
ParseEnd(st) ==
  LET p == ProcessArgOverrides(st.m, st.pending, st.cache)
  IN AddDefaults(RemoveOverrides(p.m, p.pending))

ParserStart == [m |-> EmptyMatcher, cache |-> None, pending |-> <<>>, trailing |-> FALSE]

\* App::get_matches_from_safe on a whole command line.
RECURSIVE ParseAll(_, _)
ParseAll(st, line) ==
  IF line = <<>> THEN st ELSE ParseAll(ParseStep(st, Head(line)), Tail(line))

\* The Result is Err when validate returns an error; errors holds the kinds it
\* can be.
get_matches_from_safe(line) ==
  LET m == ParseEnd(ParseAll(ParserStart, line))
  IN IF Validate(m, NeedsValOf(line)) = {"Ok"} THEN [ok |-> TRUE, matches |-> m]
     ELSE [ok |-> FALSE, errors |-> Validate(m, NeedsValOf(line))]

\* ArgMatches accessors
is_present(m, a) == m[a].present
occurrences_of(m, a) == m[a].occurs
values_of(m, a) == IF m[a].present THEN Some(m[a].vals) ELSE None
value_of(m, a) == IF m[a].present /\ m[a].vals # <<>> THEN Some(m[a].vals[1]) ELSE None

\* ------------------------------------------------------------ Positional

\* Characters an identifier may start with, and may continue with
\* (Lexer::is_identifier: [a-zA-Z_][a-zA-Z0-9_-]*).
IdentifierStart ==
  {"a", "b", "c", "d", "f", "h", "j", "r", "s", "t", "u", "w", "x", "y", "z", "_"}

IdentifierContinue == IdentifierStart \cup {"-", "0", "1"}

is_identifier(text) ==
  /\ text # <<>>
  /\ text[1] \in IdentifierStart
  /\ \A i \in 2..Len(text) : text[i] \in IdentifierContinue

\* str::find and str::rfind of one character: its first and last index, 0 when absent.
find(text, ch) ==
  IF \E i \in 1..Len(text) : text[i] = ch
  THEN CHOOSE i \in 1..Len(text) : text[i] = ch /\ \A k \in 1..(i - 1) : text[k] # ch
  ELSE 0

rfind(text, ch) ==
  IF \E i \in 1..Len(text) : text[i] = ch
  THEN CHOOSE i \in 1..Len(text) : text[i] = ch /\ \A k \in (i + 1)..Len(text) : text[k] # ch
  ELSE 0

\* Positional::override_from_value: NAME=VALUE with NAME an identifier.
override_from_value(value) ==
  LET equals == find(value, "=")
  IN IF equals = 0 THEN None
     ELSE LET name == SubSeq(value, 1, equals - 1)
              val == SubSeq(value, equals + 1, Len(value))
          IN IF is_identifier(name) THEN Some(<<name, val>>) ELSE None

\* One positional word added to the Positional built so far: overrides come
\* first, then at most one search directory, then everything is an argument.
PositionalAdd(p, value) ==
  IF p.search_directory = None /\ p.arguments = <<>>
  THEN IF override_from_value(value) # None
       THEN [p EXCEPT !.overrides = Append(@, override_from_value(value)[1])]
       ELSE IF value = <<".">> \/ value = <<".", ".">>
       THEN [p EXCEPT !.search_directory = Some(value)]
       ELSE IF rfind(value, "/") # 0
       THEN LET i == rfind(value, "/")
                dir == SubSeq(value, 1, i)
                tail == SubSeq(value, i + 1, Len(value))
            IN [p EXCEPT !.search_directory = Some(dir),
                         !.arguments = IF tail # <<>> THEN Append(@, tail) ELSE @]
       ELSE [p EXCEPT !.arguments = Append(@, value)]
  ELSE [p EXCEPT !.arguments = Append(@, value)]

RECURSIVE PositionalFold(_, _)
PositionalFold(p, values) ==
  IF values = <<>> THEN p
  ELSE PositionalFold(PositionalAdd(p, Head(values)), Tail(values))

\* Positional::from_values
Positional_from_values(values) ==
  PositionalFold([overrides |-> <<>>, search_directory |-> None, arguments |-> <<>>],
                 IF values = None THEN <<>> ELSE values[1])

\* ------------------------------------------------- Config::from_matches

\* BTreeMap<String, String>: a function from the names it holds.
EmptyMap == [n \in {} |-> <<>>]

Insert(map, key, value) ==
  [n \in DOMAIN map \cup {key} |-> IF n = key THEN value ELSE map[n]]

is_empty(coll) == DOMAIN coll = {}

\* The non-empty pieces of a path between its separators.
RECURSIVE Pieces(_, _, _)
Pieces(text, i, current) ==
  IF i > Len(text) THEN (IF current = <<>> THEN <<>> ELSE <<current>>)
  ELSE IF text[i] = "/"
  THEN (IF current = <<>> THEN <<>> ELSE <<current>>) \o Pieces(text, i + 1, <<>>)
  ELSE Pieces(text, i + 1, Append(current, text[i]))

\* Path::components: the root when the path starts with a separator, then the
\* pieces; repeated and trailing separators add nothing, and a "." is kept only
\* as the first component of a path without a root.
Components(text) ==
  LET has_root == text # <<>> /\ text[1] = "/"
      pieces == Pieces(text, 1, <<>>)
      kept == {i \in DOMAIN pieces : pieces[i] # <<".">> \/ (i = 1 /\ ~has_root)}
      nth(k) == CHOOSE i \in kept : Cardinality({j \in kept : j < i}) = k - 1
  IN (IF has_root THEN << <<"/">> >> ELSE <<>>)
       \o [k \in 1..Cardinality(kept) |-> pieces[nth(k)]]

\* PathBuf::from: two paths are equal when their components are.
PathBuf_from(text) == Components(text)

\* str::to_lowercase on the names of module cmd.
to_lowercase(name) ==
  CASE name = "COMPLETIONS" -> "completions"
    [] name = "DUMP" -> "dump"
    [] name = "EDIT" -> "edit"
    [] name = "EVALUATE" -> "evaluate"
    [] name = "INIT" -> "init"
    [] name = "LIST" -> "list"
    [] name = "SHOW" -> "show"
    [] name = "SUMMARY" -> "summary"
    [] name = "VARIABLES" -> "variables"

\* format!("--{}", subcommand.to_lowercase())
SubcommandText(name) == <<"-", "-", to_lowercase(name)>>

\* The for loop over the --set occurrences: the i-th pair is inserted i-th.
RECURSIVE SetOverrides(_, _, _, _)
SetOverrides(overrides, values, i, set_count) ==
  IF i > set_count THEN overrides
  ELSE SetOverrides(Insert(overrides, values[2 * i - 1], values[2 * i]),
                    values, i + 1, set_count)

\* The for loop over positional.overrides.
RECURSIVE PositionalOverrides(_, _)
PositionalOverrides(overrides, pairs) ==
  IF pairs = <<>> THEN overrides
  ELSE PositionalOverrides(Insert(overrides, Head(pairs)[1], Head(pairs)[2]), Tail(pairs))

OverridesSetLast(matches, positional) ==
  LET set_count == occurrences_of(matches, arg_SET)
      from_positional == PositionalOverrides(EmptyMap, positional.overrides)
  IN IF set_count > 0
     THEN SetOverrides(from_positional, values_of(matches, arg_SET)[1], 1, set_count)
     ELSE from_positional

Overrides(matches, positional) ==
  LET set_count == occurrences_of(matches, arg_SET)
      from_set == IF set_count > 0
                  THEN SetOverrides(EmptyMap, values_of(matches, arg_SET)[1], 1, set_count)
                  ELSE EmptyMap
  IN PositionalOverrides(from_set, positional.overrides)

ConfigError(kind, subcommand, arguments, overrides) ==
  [kind |-> kind, subcommand |-> subcommand, arguments |-> arguments,
   overrides |-> overrides]

Err(e) == [ok |-> FALSE, error |-> e]

Ok(v) == [ok |-> TRUE, config |-> v]

\* The search_config block.
SearchConfigOf(matches, positional) ==
  LET justfile == value_of(matches, arg_JUSTFILE)
      working_directory == value_of(matches, arg_WORKING_DIRECTORY)
  IN IF positional.search_directory # None
     THEN IF justfile # None \/ working_directory # None
          THEN Err(ConfigError("SearchDirConflict", None, <<>>, EmptyMap))
          ELSE Ok([kind |-> "FromSearchDirectory",
                   search_directory |-> Some(PathBuf_from(positional.search_directory[1])),
                   justfile |-> None, working_directory |-> None])
     ELSE IF justfile = None /\ working_directory = None
          THEN Ok([kind |-> "FromInvocationDirectory", search_directory |-> None,
                   justfile |-> None, working_directory |-> None])
     ELSE IF justfile # None /\ working_directory = None
          THEN Ok([kind |-> "WithJustfile", search_directory |-> None,
                   justfile |-> Some(PathBuf_from(justfile[1])),
                   working_directory |-> None])
     ELSE IF justfile # None /\ working_directory # None
          THEN Ok([kind |-> "WithJustfileAndWorkingDirectory", search_directory |-> None,
                   justfile |-> Some(PathBuf_from(justfile[1])),
                   working_directory |-> Some(PathBuf_from(working_directory[1]))])
     ELSE Err(ConfigError("Internal", None, <<>>, EmptyMap))

\* The body of the loop over cmd::ARGLESS for one subcommand that is present.
ArglessError(subcommand, overrides, positional) ==
  IF ~is_empty(overrides) /\ is_empty(positional.arguments)
  THEN Some(ConfigError("SubcommandOverrides", Some(SubcommandText(subcommand)),
                        <<>>, overrides))
  ELSE IF is_empty(overrides) /\ ~is_empty(positional.arguments)
  THEN Some(ConfigError("SubcommandArguments", Some(SubcommandText(subcommand)),
                        positional.arguments, EmptyMap))
  ELSE IF ~is_empty(overrides) /\ ~is_empty(positional.arguments)
  THEN Some(ConfigError("SubcommandOverridesAndArguments",
                        Some(SubcommandText(subcommand)), positional.arguments, overrides))
  ELSE None

\* The loop over cmd::ARGLESS: the first error returns.
RECURSIVE ArglessCheck(_, _, _, _)
ArglessCheck(matches, overrides, positional, i) ==
  IF i > Len(cmd_ARGLESS) THEN None
  ELSE IF is_present(matches, cmd_ARGLESS[i])
          /\ ArglessError(cmd_ARGLESS[i], overrides, positional) # None
  THEN ArglessError(cmd_ARGLESS[i], overrides, positional)
  ELSE ArglessCheck(matches, overrides, positional, i + 1)

Subcommand(kind, arguments, overrides, value) ==
  [kind |-> kind, arguments |-> arguments, overrides |-> overrides, value |-> value]

\* The --evaluate branch of the chain: recipe arguments are an error.
EvaluateSubcommand(overrides, positional) ==
  IF ~is_empty(positional.arguments)
  THEN Err(ConfigError("SubcommandArguments", Some(SubcommandText(cmd_EVALUATE)),
                       positional.arguments, EmptyMap))
  ELSE Ok(Subcommand("Evaluate", <<>>, overrides, None))

\* The if/else chain that picks the subcommand.
SubcommandOf(matches, overrides, positional) ==
  IF value_of(matches, cmd_COMPLETIONS) # None
  THEN Ok(Subcommand("Completions", <<>>, EmptyMap, value_of(matches, cmd_COMPLETIONS)))
  ELSE IF is_present(matches, cmd_EDIT) THEN Ok(Subcommand("Edit", <<>>, EmptyMap, None))
  ELSE IF is_present(matches, cmd_SUMMARY) THEN Ok(Subcommand("Summary", <<>>, EmptyMap, None))
  ELSE IF is_present(matches, cmd_DUMP) THEN Ok(Subcommand("Dump", <<>>, EmptyMap, None))
  ELSE IF is_present(matches, cmd_INIT) THEN Ok(Subcommand("Init", <<>>, EmptyMap, None))
  ELSE IF is_present(matches, cmd_LIST) THEN Ok(Subcommand("List", <<>>, EmptyMap, None))
  ELSE IF value_of(matches, cmd_SHOW) # None
  THEN Ok(Subcommand("Show", <<>>, EmptyMap, value_of(matches, cmd_SHOW)))
  ELSE IF is_present(matches, cmd_EVALUATE) THEN EvaluateSubcommand(overrides, positional)
  ELSE IF is_present(matches, cmd_VARIABLES)
  THEN Ok(Subcommand("Variables", <<>>, EmptyMap, None))
  ELSE Ok(Subcommand("Run", positional.arguments, overrides, None))

ShellArgsIgnoringClear(matches) == values_of(matches, arg_SHELL_ARG)[1]

\* The shell_args block.
ShellArgsOf(matches) ==
  IF is_present(matches, arg_CLEAR_SHELL_ARGS) THEN <<>>
  ELSE values_of(matches, arg_SHELL_ARG)[1]

ShellPresentWithoutClear(matches) ==
  \/ occurrences_of(matches, arg_SHELL) > 0
  \/ occurrences_of(matches, arg_SHELL_ARG) > 0

\* The shell_present expression.
ShellPresentOf(matches) ==
  \/ occurrences_of(matches, arg_CLEAR_SHELL_ARGS) > 0
  \/ occurrences_of(matches, arg_SHELL) > 0
  \/ occurrences_of(matches, arg_SHELL_ARG) > 0

HighlightFromFlag(matches) == is_present(matches, arg_HIGHLIGHT)

HighlightOf(matches) == ~is_present(matches, arg_NO_HIGHLIGHT)

DryRunOf(matches) == is_present(matches, arg_DRY_RUN)

QuietOf(matches) == is_present(matches, arg_QUIET)

\* The loop over the --set occurrences takes two values per occurrence with
\* values.next().unwrap(): it panics when clap matched fewer values than that.
SetUnwrapsNone(matches) ==
  /\ occurrences_of(matches, arg_SET) > 0
  /\ Len(values_of(matches, arg_SET)[1]) < 2 * occurrences_of(matches, arg_SET)

\* env::current_dir(): the invocation directory, or an io::Error when it
\* cannot be read (it was removed, or a directory above it cannot be entered).
CurrentDirResults == {"Ok", "Err"}

\* Config::from_matches, given what env::current_dir() returned.
from_matches(matches, current_dir) ==
  LET positional == Positional_from_values(values_of(matches, arg_ARGUMENTS))
      overrides == Overrides(matches, positional)
      search_config == SearchConfigOf(matches, positional)
      argless == ArglessCheck(matches, overrides, positional, 1)
      subcommand == SubcommandOf(matches, overrides, positional)
  IN IF current_dir = "Err" THEN Err(ConfigError("CurrentDir", None, <<>>, EmptyMap))
     ELSE IF SetUnwrapsNone(matches) THEN [ok |-> FALSE, panic |-> "unwrap on None"]
     ELSE IF ~search_config.ok THEN search_config
     ELSE IF argless # None THEN Err(argless[1])
     ELSE IF ~subcommand.ok THEN subcommand
     ELSE Ok([dry_run |-> DryRunOf(matches),
              highlight |-> HighlightOf(matches),
              quiet |-> QuietOf(matches),
              shell |-> value_of(matches, arg_SHELL)[1],
              search_config |-> search_config.config,
              shell_args |-> ShellArgsOf(matches),
              shell_present |-> ShellPresentOf(matches),
              subcommand |-> subcommand.config])

\* ------------------------------------------ the process: parse, configure

NoJob == [config |-> None]

RunIdle ==
  /\ job = NoJob
  /\ pc = "idle"
  /\ effects = <<>>
  /\ ret = None

Init ==
  /\ argv = <<>>
  /\ matcher = ParserStart.m
  /\ cache = ParserStart.cache
  /\ pending = ParserStart.pending
  /\ trailing = ParserStart.trailing
  /\ phase = "parsing"
  /\ outcome = None
  /\ RunIdle

ParserState == [m |-> matcher, cache |-> cache, pending |-> pending, trailing |-> trailing]

\* clap reads the next occurrence of the command line.
ParseArg(tok) ==
  /\ phase = "parsing"
  /\ Len(argv) < MaxArgs
  /\ WellFormedLine(Append(argv, tok))
  /\ argv' = Append(argv, tok)
  /\ LET st == ParseStep(ParserState, tok)
     IN /\ matcher' = st.m
        /\ cache' = st.cache
        /\ pending' = st.pending
        /\ trailing' = st.trailing
  /\ UNCHANGED <<phase, outcome, job, pc, effects, ret>>

\* clap reaches the end of the command line and validates what it matched.
EndOfArgs ==
  /\ phase = "parsing"
  /\ matcher' = ParseEnd(ParserState)
  /\ \E result \in Validate(matcher', NeedsValOf(argv)) :
       IF result = "Ok"
       THEN phase' = "matched" /\ outcome' = None
       ELSE phase' = "clap_error" /\ outcome' = Some(result)
  /\ UNCHANGED <<argv, cache, pending, trailing, job, pc, effects, ret>>

\* Config::from_matches on the matches clap accepted: it returns a Config or
\* a ConfigError, or it panics.
FromMatches ==
  /\ phase = "matched"
  /\ \E current_dir \in CurrentDirResults :
       LET result == from_matches(matcher, current_dir)
       IN /\ outcome' = Some(result)
          /\ phase' = IF result.ok THEN "config"
                       ELSE IF "panic" \in DOMAIN result THEN "panic"
                       ELSE "config_error"
  /\ UNCHANGED <<argv, matcher, cache, pending, trailing, job, pc, effects, ret>>

Next ==
  \/ \E tok \in Tokens : ParseArg(tok)
  \/ EndOfArgs
  \/ FromMatches

Spec == Init /\ [][Next]_vars

\* ------------------------------------------------ Config::run_subcommand

MaxRunArgs == 2

\* The process exit codes a Result<(), i32> carries, by name.
EXIT_FAILURE == "EXIT_FAILURE"

OkResult == [ok |-> TRUE, code |-> "0"]

ErrResult(code) == [ok |-> FALSE, code |-> code]

\* ------------------------------------------------------ the compiled Justfile

\* The characters of the model's names, in the order of their code points.
Alphabet ==
  <<"-", "0", "1", "_", "a", "b", "c", "d", "e", "f", "h", "j", "l", "r", "s", "t",
    "u", "w", "x", "y", "z">>

Rank(ch) == CHOOSE i \in DOMAIN Alphabet : Alphabet[i] = ch

\* Ord for str: lexicographic by code point, a proper prefix first.
RECURSIVE Less(_, _)
Less(s, t) ==
  IF s = <<>> THEN t # <<>>
  ELSE IF t = <<>> THEN FALSE
  ELSE IF s[1] = t[1] THEN Less(Tail(s), Tail(t))
  ELSE Rank(s[1]) < Rank(t[1])

\* The iteration order of a BTreeMap keyed by name: its keys, ascending.
RECURSIVE Sorted(_)
Sorted(names) ==
  IF names = {} THEN <<>>
  ELSE LET least == CHOOSE n \in names : \A m \in names \ {n} : Less(n, m)
       IN <<least>> \o Sorted(names \ {least})

Keys(table) == Sorted(DOMAIN table)

\* struct Parameter: name, variadic flag, optional default expression.
Parameter(name, variadic, default) ==
  [name |-> name, variadic |-> variadic, default |-> default]

\* A body line with its prefix modifiers.
Line(quiet, ignore_error) == [quiet |-> quiet, ignore_error |-> ignore_error]

\* A recipe as declared: private iff its name begins with an underscore.
Recipe(name, parameters, dependencies, lines, doc) ==
  [name |-> name, parameters |-> parameters, dependencies |-> dependencies,
   lines |-> lines, doc |-> doc, private |-> name[1] = "_"]

Alias(name, target) == [name |-> name, target |-> target]

\* Alias::is_private
is_private(alias) == alias.name[1] = "_"

\* A justfile's text, by what parsing it gives: whether it parses with acyclic
\* assignments, its assignments (name to string), the names its expressions
\* refer to, how many warnings parsing attaches, and the recipes and aliases in
\* the order of their declaration.
Source(valid, assignments, references, warnings, recipes, aliases) ==
  [valid |-> valid, assignments |-> assignments, references |-> references,
   warnings |-> warnings, recipes |-> recipes, aliases |-> aliases]

default_recipe == <<"d", "e", "f", "a", "u", "l", "t">>

\* "default:\n\techo 'Hello, world!'\n"
INIT_JUSTFILE ==
  Source(TRUE, EmptyMap, {}, 0,
         <<Recipe(default_recipe, <<>>, <<>>, <<Line(FALSE, FALSE)>>, None)>>, <<>>)

\* "f := g\ng := f\n"
SourceBroken == Source(FALSE, EmptyMap, {}, 0, <<>>, <<>>)

\* "f = 'file'\ndefault:\n\techo {{f}}\nb: default\n\t-echo b\n"
SourceAssigning ==
  Source(TRUE, (<<"f">> :> <<"file">>), {<<"f">>}, 1,
         <<Recipe(default_recipe, <<>>, <<>>, <<Line(FALSE, FALSE)>>, None),
           Recipe(<<"b">>, <<>>, <<default_recipe>>, <<Line(FALSE, TRUE)>>, None)>>,
         <<>>)

\* The text of INIT_JUSTFILE, character by character.
InitText ==
  <<"d", "e", "f", "a", "u", "l", "t", ":", "\n", "\t", "e", "c", "h", "o", " ", "'",
    "H", "e", "l", "l", "o", ",", " ", "w", "o", "r", "l", "d", "!", "'", "\n">>

\* A file that holds the first characters of INIT_JUSTFILE: all of them is
\* INIT_JUSTFILE, fewer is a file known by its text.
Written(n) ==
  IF n = Len(InitText) THEN INIT_JUSTFILE ELSE [text |-> SubSeq(InitText, 1, n)]

\* How many characters a file left by init holds.
WrittenLen(file) == IF file = INIT_JUSTFILE THEN Len(InitText) ELSE Len(file.text)

Sources == {INIT_JUSTFILE, SourceBroken, SourceAssigning}

RecipeNames(src) == {src.recipes[i].name : i \in DOMAIN src.recipes}

AliasNames(src) == {src.aliases[i].name : i \in DOMAIN src.aliases}

\* The recipes reachable from a name along dependency edges in at most n steps.
RECURSIVE Reach(_, _, _)
Reach(recipes, names, n) ==
  IF n = 0 THEN names
  ELSE Reach(recipes,
             names \cup UNION {Range(recipes[i].dependencies) :
                                 i \in {k \in DOMAIN recipes : recipes[k].name \in names}},
             n - 1)

Circular(recipes) ==
  \E i \in DOMAIN recipes :
    recipes[i].name \in Reach(recipes, Range(recipes[i].dependencies), Len(recipes))

\* The compile errors of the analysis after parsing: duplicate names, unknown
\* alias targets and dependencies, circular recipe dependencies.
CompilationError(src) ==
  \/ ~src.valid
  \/ Cardinality(RecipeNames(src)) # Len(src.recipes)
  \/ Cardinality(AliasNames(src)) # Len(src.aliases)
  \/ \E i \in DOMAIN src.aliases : src.aliases[i].target \notin RecipeNames(src)
  \/ \E i \in DOMAIN src.recipes :
       ~(Range(src.recipes[i].dependencies) \subseteq RecipeNames(src))
  \/ Circular(src.recipes)

\* Compiler::compile: a Justfile, or a compilation error. The Justfile keeps
\* recipes and aliases in tables keyed by name; an alias that shadows a recipe
\* adds a warning.
Compiler_compile(src) ==
  IF CompilationError(src) THEN [ok |-> FALSE, justfile |-> None]
  ELSE [ok |-> TRUE,
        justfile |->
          [assignments |-> src.assignments, references |-> src.references,
           warnings |-> src.warnings
                          + Cardinality(AliasNames(src) \cap RecipeNames(src)),
           first |-> IF src.recipes = <<>> THEN None ELSE Some(src.recipes[1].name),
           recipes |-> [n \in RecipeNames(src) |->
                          src.recipes[CHOOSE i \in DOMAIN src.recipes :
                                        src.recipes[i].name = n]],
           aliases |-> [n \in AliasNames(src) |->
                          src.aliases[CHOOSE i \in DOMAIN src.aliases :
                                        src.aliases[i].name = n]]]]

\* Justfile::get_alias, get_recipe, count
get_alias(justfile, name) ==
  IF name \in DOMAIN justfile.aliases THEN Some(justfile.aliases[name]) ELSE None

get_recipe(justfile, name) ==
  IF name \in DOMAIN justfile.recipes THEN Some(justfile.recipes[name]) ELSE None

count(justfile) == Cardinality(DOMAIN justfile.recipes)

\* The evaluator's lookup of a variable reference: overrides first, then the
\* assignments; the model's process environment is empty.
Resolve(name, overrides, assignments) ==
  IF name \in DOMAIN overrides THEN Some(overrides[name])
  ELSE IF name \in DOMAIN assignments THEN Some(assignments[name])
  ELSE None

\* Justfile::run, as far as evaluation goes: what each reference evaluates to.
Justfile_run(justfile, overrides, arguments) ==
  [n \in justfile.references |-> Resolve(n, overrides, justfile.assignments)]

Effect(op, arg) == [op |-> op, arg |-> arg]

\* The subcommands that need a compiled justfile.
NeedsJustfile == {"Dump", "Evaluate", "List", "Run", "Show", "Summary", "Variables"}

RunOverridesDropped(subcommand) ==
  IF subcommand.kind = "Evaluate" THEN EmptyMap ELSE subcommand.overrides

\* What the match in run_subcommand hands to Config::run: overrides, arguments.
RunOverrides(subcommand) == subcommand.overrides

RunArguments(subcommand) ==
  IF subcommand.kind = "Evaluate" THEN <<>> ELSE subcommand.arguments

\* Every command line of at most MaxRunArgs occurrences.
Lines == {line \in UNION {[1..n -> Tokens] : n \in 0..MaxRunArgs} : WellFormedLine(line)}

\* The run starts from a Config that from_matches gave for a command line, and
\* from a justfile path that holds one of the sources or cannot be read.
InitRun ==
  /\ argv \in {line \in Lines : /\ get_matches_from_safe(line).ok
                                /\ from_matches(get_matches_from_safe(line).matches, "Ok").ok}
  /\ matcher = get_matches_from_safe(argv).matches
  /\ cache = ParseAll(ParserStart, argv).cache
  /\ pending = ParseAll(ParserStart, argv).pending
  /\ trailing = ParseAll(ParserStart, argv).trailing
  /\ phase = "config"
  /\ outcome = Some(from_matches(matcher, "Ok"))
  /\ \E file \in {None} \cup {Some(src) : src \in Sources} :
       job = [config |-> Some(from_matches(matcher, "Ok").config), file |-> file,
              search |-> None, read |-> None, src |-> None, compiled |-> None,
              justfile |-> None, compiles |-> 0,
              requests |-> <<>>, stack |-> <<>>, ran |-> {}, result |-> None]
  /\ pc = "start"
  /\ effects = <<>>
  /\ ret = None

Return(result) ==
  /\ ret' = Some(result)
  /\ pc' = "done"

ParseVars == <<argv, matcher, cache, pending, trailing, phase, outcome>>

\* `.eprint(self.color)?` on an Err: the error is printed and returned as its code.
EprintAndReturn(what) ==
  /\ effects' = Append(effects, Effect("eprint_error", what))
  /\ Return(ErrResult(EXIT_FAILURE))

\* What Subcommand::completions can return: Ok, or Err with an exit code.
CompletionsResults == {OkResult, ErrResult(EXIT_FAILURE), ErrResult("7")}

\* The head of run_subcommand: Init and Completions return at once, Completions
\* with whatever Subcommand::completions returns.
Dispatch ==
  /\ pc = "start"
  /\ LET kind == job.config[1].subcommand.kind
     IN IF kind = "Init" THEN pc' = "init" /\ UNCHANGED <<effects, ret>>
        ELSE IF kind = "Completions"
        THEN /\ effects' = Append(effects, Effect("completions",
                                                  job.config[1].subcommand.value))
             /\ \E result \in CompletionsResults : Return(result)
        ELSE pc' = "find" /\ UNCHANGED <<effects, ret>>
  /\ UNCHANGED <<ParseVars, job>>

\* Config::init up to the test of the path: Search::init may fail; a path that
\* holds a file is reported and left alone.
InitExists ==
  /\ pc = "init"
  /\ \E search_ok \in BOOLEAN :
       IF ~search_ok THEN EprintAndReturn("SearchError")
       ELSE IF job.file # None
       THEN /\ effects' = Append(effects, Effect("eprintln", "already exists"))
            /\ Return(ErrResult(EXIT_FAILURE))
       ELSE /\ pc' = "fs::write"
            /\ UNCHANGED <<effects, ret>>
  /\ UNCHANGED <<ParseVars, job>>

\* fs::write, its File::create: the file is created, or emptied when the path
\* holds one by now; when it cannot be opened the path is left as it is, and
\* init reports the error.
InitCreate ==
  /\ pc = "fs::write"
  /\ \E created \in BOOLEAN :
       IF created
       THEN /\ job' = [job EXCEPT !.file = Some(Written(0))]
            /\ pc' = "write_all"
            /\ UNCHANGED <<effects, ret>>
       ELSE /\ effects' = Append(effects, Effect("eprintln", "Failed to write justfile"))
            /\ Return(ErrResult(EXIT_FAILURE))
            /\ UNCHANGED job
  /\ UNCHANGED ParseVars

\* fs::write, its write_all from the start of the file, and the rest of
\* Config::init: all of the text is written and init returns Ok, or the write
\* stops after some of it and init reports the error. Characters that another
\* write has put beyond where this one stops stay.
InitWriteAll ==
  /\ pc = "write_all"
  /\ \E n \in 0..Len(InitText) :
       /\ job' = [job EXCEPT !.file =
                    Some(Written(IF n >= WrittenLen(job.file[1]) THEN n
                                 ELSE WrittenLen(job.file[1])))]
       /\ IF n = Len(InitText)
          THEN /\ effects' = Append(effects, Effect("eprintln", "Wrote justfile"))
               /\ Return(OkResult)
          ELSE /\ effects' = Append(effects, Effect("eprintln", "Failed to write justfile"))
               /\ Return(ErrResult(EXIT_FAILURE))
  /\ UNCHANGED ParseVars

\* Search::find, which may fail, and the Edit subcommand's early dispatch.
Find ==
  /\ pc = "find"
  /\ \E found \in BOOLEAN :
       IF ~found
       THEN /\ job' = [job EXCEPT !.search = Some("Err")]
            /\ EprintAndReturn("SearchError")
       ELSE /\ job' = [job EXCEPT !.search = Some("Ok")]
            /\ pc' = IF job.config[1].subcommand.kind = "Edit" THEN "edit" ELSE "read"
            /\ UNCHANGED <<effects, ret>>
  /\ UNCHANGED ParseVars

\* The exit statuses of an editor: a code, or none when a signal ended it.
EditorStatuses == {Some("0"), Some("1"), Some("3"), None}

\* Config::edit, Command::status up to the spawn: an editor that cannot be
\* started is reported and gives EXIT_FAILURE; one that starts runs on the
\* justfile.
Edit ==
  /\ pc = "edit"
  /\ \E spawned \in BOOLEAN :
       IF spawned
       THEN /\ effects' = Append(effects, Effect("spawn", "editor"))
            /\ pc' = "editing"
            /\ UNCHANGED ret
       ELSE /\ effects' = effects \o <<Effect("spawn", "editor"),
                                       Effect("eprintln", "invocation failed")>>
            /\ Return(ErrResult(EXIT_FAILURE))
  /\ UNCHANGED <<ParseVars, job>>

\* The editor, while Command::status waits for it, does to the justfile what
\* its user has it do: it writes another text, deletes the file or creates it.
EditorWrites ==
  /\ pc = "editing"
  /\ \E file \in ({None} \cup {Some(src) : src \in Sources}) \ {job.file} :
       job' = [job EXCEPT !.file = file]
  /\ UNCHANGED <<ParseVars, pc, effects, ret>>

\* Config::edit after the editor has exited. Command::status has waited for
\* it: when the wait fails (no child is left to wait for, as when SIGCHLD is
\* ignored) status() is Err, whatever the editor did, and edit reports a
\* failed invocation; else Ok on success, else the editor's exit code,
\* EXIT_FAILURE when it has none.
EditorExits ==
  /\ pc = "editing"
  /\ \E waited \in BOOLEAN, status \in EditorStatuses :
       IF ~waited
       THEN /\ effects' = Append(effects, Effect("eprintln", "invocation failed"))
            /\ Return(ErrResult(EXIT_FAILURE))
       ELSE IF status = Some("0")
       THEN /\ UNCHANGED effects
            /\ Return(OkResult)
       ELSE /\ effects' = Append(effects, Effect("eprintln", <<"Editor failed", status>>))
            /\ Return(ErrResult(IF status # None THEN status[1] ELSE EXIT_FAILURE))
  /\ UNCHANGED <<ParseVars, job>>

ReadOrEmpty ==
  /\ pc = "read"
  /\ IF job.file = None
     THEN job' = [job EXCEPT !.read = Some("Err"), !.src = Some(INIT_JUSTFILE)]
     ELSE job' = [job EXCEPT !.read = Some("Ok"), !.src = job.file]
  /\ pc' = "compile"
  /\ UNCHANGED <<effects, ret>>
  /\ UNCHANGED ParseVars

\* fs::read_to_string of the justfile.
Read ==
  /\ pc = "read"
  /\ IF job.file = None
     THEN /\ job' = [job EXCEPT !.read = Some("Err")]
          /\ EprintAndReturn("LoadError")
     ELSE /\ job' = [job EXCEPT !.read = Some("Ok"), !.src = job.file]
          /\ pc' = "compile"
          /\ UNCHANGED <<effects, ret>>
  /\ UNCHANGED ParseVars

\* Compiler::compile(&src).eprint(self.color)?
Compile ==
  /\ pc = "compile"
  /\ LET result == Compiler_compile(job.src[1])
     IN IF ~result.ok
        THEN /\ job' = [job EXCEPT !.compiled = Some("Err"),
                                   !.compiles = job.compiles + 1]
             /\ EprintAndReturn("CompilationError")
        ELSE /\ job' = [job EXCEPT !.compiled = Some("Ok"),
                                   !.justfile = Some(result.justfile),
                                   !.compiles = job.compiles + 1]
             /\ pc' = "warn"
             /\ UNCHANGED <<effects, ret>>
  /\ UNCHANGED ParseVars

\* The loop over justfile.warnings.
Warn ==
  /\ pc = "warn"
  /\ effects' = effects \o [i \in 1..job.justfile[1].warnings |-> Effect("eprintln_warning", i)]
  /\ pc' = "match"
  /\ UNCHANGED <<ParseVars, job, ret>>

\* ------------------------------------------------- the reporting subcommands

\* Display for Expression: a raw string in single quotes, a cooked string in
\* double quotes, a variable by its name.
Expression(kind, text) == [kind |-> kind, text |-> text]

Expression_fmt(expression) ==
  CASE expression.kind = "raw" -> <<"'">> \o expression.text \o <<"'">>
    [] expression.kind = "cooked" -> <<"\"">> \o expression.text \o <<"\"">>
    [] OTHER -> expression.text

\* impl Display for Parameter: "+" when variadic, the name, "=" and the default.
Parameter_fmt(parameter) ==
  (IF parameter.variadic THEN <<"+">> ELSE <<>>)
    \o parameter.name
    \o (IF parameter.default # None
        THEN <<"=">> \o Expression_fmt(parameter.default[1]) ELSE <<>>)

\* Config::dump: prints the Justfile.
dump(justfile) ==
  [effects |-> <<Effect("println", justfile)>>, result |-> OkResult]

\* A first loop that keeps the private aliases.
RECURSIVE RecipeAliases_all(_, _, _)
RecipeAliases_all(justfile, keys, recipe_aliases) ==
  IF keys = <<>> THEN recipe_aliases
  ELSE LET alias == justfile.aliases[Head(keys)]
       IN RecipeAliases_all(
            justfile, Tail(keys),
            IF alias.target \notin DOMAIN recipe_aliases
            THEN Insert(recipe_aliases, alias.target, <<alias.name>>)
            ELSE Insert(recipe_aliases, alias.target,
                        Append(recipe_aliases[alias.target], alias.name)))

\* Config::list, its first loop: the target to aliases map, private aliases
\* left out, each target's aliases in the order of the alias table.
RECURSIVE RecipeAliases(_, _, _)
RecipeAliases(justfile, keys, recipe_aliases) ==
  IF keys = <<>> THEN recipe_aliases
  ELSE LET alias == justfile.aliases[Head(keys)]
       IN RecipeAliases(
            justfile, Tail(keys),
            IF is_private(alias) THEN recipe_aliases
            ELSE IF alias.target \notin DOMAIN recipe_aliases
            THEN Insert(recipe_aliases, alias.target, <<alias.name>>)
            ELSE Insert(recipe_aliases, alias.target,
                        Append(recipe_aliases[alias.target], alias.name)))

\* iter::once(name).chain(recipe_aliases.get(name).unwrap_or(&Vec::new()))
NameAndAliases(name, recipe_aliases) ==
  <<name>> \o (IF name \in DOMAIN recipe_aliases THEN recipe_aliases[name] ELSE <<>>)

\* Characters that take two columns of a terminal. The texts of the model hold
\* no control and no combining characters.
WideCharacters == {"日"}

\* UnicodeWidthChar::width
char_width(ch) == IF ch \in WideCharacters THEN 2 ELSE 1

\* UnicodeWidthStr::width: the columns of a text, the sum over its characters.
RECURSIVE UnicodeWidthStr_width(_)
UnicodeWidthStr_width(text) ==
  IF text = <<>> THEN 0
  ELSE char_width(Head(text)) + UnicodeWidthStr_width(Tail(text))

\* The sum over the parameters of the width of format!(" {}", parameter).
RECURSIVE ParametersWidth(_)
ParametersWidth(parameters) ==
  IF parameters = <<>> THEN 0
  ELSE UnicodeWidthStr_width(<<" ">> \o Parameter_fmt(Head(parameters)))
         + ParametersWidth(Tail(parameters))

\* The widest line that still gets its doc comment aligned.
MaxLineWidth == 30

\* Config::list, its second loop: the width of every line of at most
\* MaxLineWidth columns, by name.
RECURSIVE NameWidths(_, _, _)
NameWidths(names, recipe, line_widths) ==
  IF names = <<>> THEN line_widths
  ELSE LET line_width == UnicodeWidthStr_width(Head(names))
                            + ParametersWidth(recipe.parameters)
       IN NameWidths(Tail(names), recipe,
                     IF line_width <= MaxLineWidth
                     THEN Insert(line_widths, Head(names), line_width)
                     ELSE line_widths)

RECURSIVE LineWidths(_, _, _, _)
LineWidths(justfile, keys, recipe_aliases, line_widths) ==
  IF keys = <<>> THEN line_widths
  ELSE LET recipe == justfile.recipes[Head(keys)]
       IN LineWidths(justfile, Tail(keys), recipe_aliases,
                     IF recipe.private THEN line_widths
                     ELSE NameWidths(NameAndAliases(Head(keys), recipe_aliases),
                                     recipe, line_widths))

Max(numbers) == IF numbers = {} THEN 0 ELSE CHOOSE n \in numbers : \A m \in numbers : m <= n

Min(a, b) == IF a <= b THEN a ELSE b

saturating_sub(a, b) == IF a >= b THEN a - b ELSE 0

\* Config::list, its third loop, for one recipe: a line per name, the recipe's
\* doc on the first and "alias for" on the others, padded to max_line_width.
ListLines(names, recipe, line_widths, max_line_width) ==
  [i \in DOMAIN names |->
     LET padding ==
           saturating_sub(max_line_width,
                          IF names[i] \in DOMAIN line_widths
                          THEN line_widths[names[i]] ELSE max_line_width)
     IN Effect("println",
               [name |-> names[i],
                parameters |-> [k \in DOMAIN recipe.parameters |->
                                  Parameter_fmt(recipe.parameters[k])],
                doc |-> IF i = 1
                        THEN (IF recipe.doc = None THEN None
                              ELSE Some([padding |-> padding, alias_for |-> FALSE,
                                         text |-> recipe.doc[1]]))
                        ELSE Some([padding |-> padding, alias_for |-> TRUE,
                                   text |-> recipe.name])])]

RECURSIVE ListRecipes(_, _, _, _, _)
ListRecipes(justfile, keys, recipe_aliases, line_widths, max_line_width) ==
  IF keys = <<>> THEN <<>>
  ELSE LET recipe == justfile.recipes[Head(keys)]
       IN (IF recipe.private THEN <<>>
           ELSE ListLines(NameAndAliases(Head(keys), recipe_aliases), recipe,
                          line_widths, max_line_width))
            \o ListRecipes(justfile, Tail(keys), recipe_aliases, line_widths,
                           max_line_width)

\* Config::list
list(justfile) ==
  LET recipe_aliases == RecipeAliases(justfile, Keys(justfile.aliases), EmptyMap)
      line_widths == LineWidths(justfile, Keys(justfile.recipes), recipe_aliases, EmptyMap)
      max_line_width == Min(Max(Range(line_widths)), MaxLineWidth)
  IN [effects |-> <<Effect("println", "Available recipes:")>>
                    \o ListRecipes(justfile, Keys(justfile.recipes), recipe_aliases,
                                   line_widths, max_line_width),
      result |-> OkResult]

\* The Levenshtein distance of two names.
RECURSIVE edit_distance(_, _)
edit_distance(a, b) ==
  IF a = <<>> THEN Len(b)
  ELSE IF b = <<>> THEN Len(a)
  ELSE Min(Min(edit_distance(Tail(a), b) + 1, edit_distance(a, Tail(b)) + 1),
           edit_distance(Tail(a), Tail(b)) + (IF Head(a) = Head(b) THEN 0 ELSE 1))

\* "Did you mean `name`?", with ", an alias for `target`" for an alias.
Suggestion(name, target) == [name |-> name, target |-> target]

\* Justfile::suggest: the recipe names and then the alias names, those at an
\* edit distance below 3 from the input, the nearest first; among names equally
\* near the one that comes first in that order.
suggest(justfile, input) ==
  LET recipes == Keys(justfile.recipes)
      aliases == Keys(justfile.aliases)
      candidates ==
        [i \in DOMAIN recipes |-> Suggestion(recipes[i], None)]
          \o [i \in DOMAIN aliases |->
                Suggestion(aliases[i], Some(justfile.aliases[aliases[i]].target))]
      near == {i \in DOMAIN candidates : edit_distance(candidates[i].name, input) < 3}
  IN IF near = {} THEN None
     ELSE Some(candidates[
            CHOOSE i \in near :
              \A k \in near :
                \/ edit_distance(candidates[i].name, input)
                     < edit_distance(candidates[k].name, input)
                \/ /\ edit_distance(candidates[i].name, input)
                        = edit_distance(candidates[k].name, input)
                   /\ i <= k])

\* A show that looks in the recipe table before the alias table.
show_recipe_first(name, justfile) ==
  IF get_recipe(justfile, name) # None
  THEN [effects |-> <<Effect("println", get_recipe(justfile, name)[1])>>,
        result |-> OkResult]
  ELSE IF get_alias(justfile, name) # None
  THEN [effects |-> <<Effect("println", get_alias(justfile, name)[1]),
                      Effect("println",
                             get_recipe(justfile, get_alias(justfile, name)[1].target)[1])>>,
        result |-> OkResult]
  ELSE [effects |-> <<Effect("eprintln", <<"Justfile does not contain recipe", name>>)>>
                      \o (IF suggest(justfile, name) # None
                          THEN <<Effect("eprintln", suggest(justfile, name)[1])>>
                          ELSE <<>>),
        result |-> ErrResult(EXIT_FAILURE)]

\* Config::show: the alias table first, then the recipe table; unwrap panics
\* on None.
show(name, justfile) ==
  IF get_alias(justfile, name) # None
  THEN LET alias == get_alias(justfile, name)[1]
           recipe == get_recipe(justfile, alias.target)
       IN IF recipe = None
          THEN [effects |-> <<Effect("panic", "unwrap")>>, result |-> ErrResult("panic")]
          ELSE [effects |-> <<Effect("println", alias), Effect("println", recipe[1])>>,
                result |-> OkResult]
  ELSE IF get_recipe(justfile, name) # None
  THEN [effects |-> <<Effect("println", get_recipe(justfile, name)[1])>>,
        result |-> OkResult]
  ELSE [effects |-> <<Effect("eprintln", <<"Justfile does not contain recipe", name>>)>>
                      \o (IF suggest(justfile, name) # None
                          THEN <<Effect("eprintln", suggest(justfile, name)[1])>>
                          ELSE <<>>),
        result |-> ErrResult(EXIT_FAILURE)]

RECURSIVE PublicNames(_, _)
PublicNames(justfile, keys) ==
  IF keys = <<>> THEN <<>>
  ELSE (IF justfile.recipes[Head(keys)].private THEN <<>> ELSE <<Head(keys)>>)
         \o PublicNames(justfile, Tail(keys))

summary_running(justfile) ==
  [effects |-> <<Effect("justfile.run", justfile),
                 Effect("println", PublicNames(justfile, Keys(justfile.recipes)))>>,
   result |-> OkResult]

\* Config::summary
summary(justfile) ==
  [effects |-> IF count(justfile) = 0
               THEN <<Effect("eprintln", "Justfile contains no recipes.")>>
               ELSE <<Effect("println", PublicNames(justfile, Keys(justfile.recipes)))>>,
   result |-> OkResult]

\* Config::variables
variables(justfile) ==
  [effects |-> <<Effect("println", Keys(justfile.assignments))>>, result |-> OkResult]

\* A reporting arm of the match: the handler prints and its result is returned.
Handled(handled) ==
  /\ effects' = effects \o handled.effects
  /\ Return(handled.result)
  /\ UNCHANGED <<ParseVars, job>>

Dump ==
  /\ pc = "match"
  /\ job.config[1].subcommand.kind = "Dump"
  /\ Handled(dump(job.justfile[1]))

List ==
  /\ pc = "match"
  /\ job.config[1].subcommand.kind = "List"
  /\ Handled(list(job.justfile[1]))

Show ==
  /\ pc = "match"
  /\ job.config[1].subcommand.kind = "Show"
  /\ Handled(show(job.config[1].subcommand.value[1], job.justfile[1]))

Summary ==
  /\ pc = "match"
  /\ job.config[1].subcommand.kind = "Summary"
  /\ Handled(summary(job.justfile[1]))

Variables ==
  /\ pc = "match"
  /\ job.config[1].subcommand.kind = "Variables"
  /\ Handled(variables(job.justfile[1]))

\* ---------------------------------- the reporting subcommands on any Justfile

MaxAliases == 2

\* The characters of r's default, each two columns wide.
WideDefaultLen == 14

\* r's parameter has a default of few characters that is too wide for an
\* aligned doc comment.
RecipeR ==
  Recipe(<<"r">>,
         <<Parameter(<<"f">>, FALSE,
                     Some(Expression("raw", [i \in 1..WideDefaultLen |-> "日"])))>>,
         <<>>, <<Line(FALSE, FALSE)>>, None)

RecipeHidden == Recipe(<<"_", "b">>, <<>>, <<>>, <<Line(FALSE, FALSE)>>, Some(<<"h">>))

RecipeA ==
  Recipe(<<"a">>, <<Parameter(<<"f">>, TRUE, None)>>, <<>>, <<Line(FALSE, FALSE)>>,
         Some(<<"d">>))

\* s's line, with a default in wide characters, is the widest that is aligned;
\* the doc comment of a shorter line is padded up to it.
RecipeS ==
  Recipe(<<"s">>,
         <<Parameter(<<"f">>, FALSE, Some(Expression("raw", <<"日", "日">>)))>>,
         <<>>, <<Line(FALSE, FALSE)>>, Some(<<"d">>))

Declared == <<RecipeR, RecipeHidden, RecipeA, RecipeS>>

AliasChoices ==
  {Alias(name, target) : name \in {<<"r">>, <<"x">>, <<"_", "y">>},
                         target \in {<<"r">>, <<"_", "b">>, <<"a">>}}

\* Justfiles of any of the four recipes and at most MaxAliases aliases; an
\* alias may repeat a name or point at a recipe that is not declared.
ReportSources ==
  {Source(TRUE, assignments, {}, 0,
          SelectSeq(Declared, LAMBDA recipe : recipe.name \in chosen), aliases) :
     assignments \in {EmptyMap, (<<"f">> :> <<"x">>) @@ (<<"b">> :> <<"y">>)},
     chosen \in SUBSET {Declared[i].name : i \in DOMAIN Declared},
     aliases \in UNION {[1..n -> AliasChoices] : n \in 0..MaxAliases}}

ShowNames == {<<"r">>, <<"x">>, <<"_", "y">>, <<"a">>, <<"z">>}

\* The command lines of the reporting subcommands.
ReportLines ==
  {<<Occ(a, <<>>)>> : a \in {cmd_DUMP, cmd_LIST, cmd_SUMMARY, cmd_VARIABLES}}
    \cup {<<Occ(cmd_SHOW, <<name>>)>> : name \in ShowNames}

\* The Config that from_matches gave for a command line.
ConfiguredBy(line) ==
  /\ argv = line
  /\ matcher = get_matches_from_safe(line).matches
  /\ cache = ParseAll(ParserStart, line).cache
  /\ pending = ParseAll(ParserStart, line).pending
  /\ trailing = ParseAll(ParserStart, line).trailing
  /\ phase = "config"
  /\ outcome = Some(from_matches(matcher, "Ok"))

\* run_subcommand has found and read the justfile and is about to compile it.
InitReport ==
  /\ \E line \in ReportLines : ConfiguredBy(line)
  /\ \E src \in ReportSources :
       job = [config |-> Some(from_matches(matcher, "Ok").config), file |-> Some(src),
              search |-> Some("Ok"), read |-> Some("Ok"), src |-> Some(src),
              compiled |-> None, justfile |-> None, compiles |-> 0]
  /\ pc = "compile"
  /\ effects = <<>>
  /\ ret = None

NextReport ==
  \/ Compile
  \/ Warn
  \/ Dump
  \/ List
  \/ Show
  \/ Summary
  \/ Variables

SpecReport == InitReport /\ [][NextReport]_vars

\* --------------------------------------- init, by several processes at once

MaxInits == 3

\* The files the path can hold before the first init, or none.
InitFiles == {None} \cup {Some(src) : src \in Sources} \cup {Some(Written(0))}

\* `just --init` is about to run; start is what the path holds before, and
\* others are the `just --init` processes started on the same path that are
\* not the one taking steps, each with its position and its result.
InitInit ==
  /\ ConfiguredBy(<<Occ(cmd_INIT, <<>>)>>)
  /\ \E file \in InitFiles :
       job = [config |-> Some(from_matches(matcher, "Ok").config), file |-> file,
              start |-> file, others |-> <<>>]
  /\ pc = "init"
  /\ effects = <<>>
  /\ ret = None

\* `just --init` is run once more, whether or not the earlier runs have
\* returned.
InitAgain ==
  /\ Len(job.others) + 1 < MaxInits
  /\ job' = [job EXCEPT !.others = Append(@, [pc |-> pc, ret |-> ret])]
  /\ pc' = "init"
  /\ ret' = None
  /\ UNCHANGED <<ParseVars, effects>>

\* The scheduler lets another process that has not returned take the steps.
InitSwitch ==
  /\ \E i \in DOMAIN job.others :
       /\ job.others[i].pc # "done"
       /\ job' = [job EXCEPT !.others[i] = [pc |-> pc, ret |-> ret]]
       /\ pc' = job.others[i].pc
       /\ ret' = job.others[i].ret
  /\ UNCHANGED <<ParseVars, effects>>

NextInit ==
  \/ InitExists
  \/ InitCreate
  \/ InitWriteAll
  \/ InitAgain
  \/ InitSwitch

SpecInit == InitInit /\ [][NextInit]_vars

\* ------------------------------ Config::run and Justfile::run, step by step

MaxRequests == 2

MaxLines == 2

ExecNames == {<<"a">>, <<"b">>, <<"c">>}

\* The dependency lists a recipe can declare: other recipes, none twice.
DependencyLists(name) ==
  {deps \in UNION {[1..n -> ExecNames \ {name}] : n \in 0..(Cardinality(ExecNames) - 1)} :
     \A i, k \in DOMAIN deps : i # k => deps[i] # deps[k]}

\* Justfiles of the recipes c, b, a with any dependencies among them, cycles
\* included, and a body of one line in each.
DepsSources ==
  {Source(TRUE, EmptyMap, {}, 0,
          <<Recipe(<<"c">>, <<>>, c, <<Line(FALSE, FALSE)>>, None),
            Recipe(<<"b">>, <<>>, b, <<Line(FALSE, FALSE)>>, None),
            Recipe(<<"a">>, <<>>, a, <<Line(FALSE, FALSE)>>, None)>>, <<>>) :
     c \in DependencyLists(<<"c">>), b \in DependencyLists(<<"b">>),
     a \in DependencyLists(<<"a">>)}

Requests(names) == UNION {[1..n -> names] : n \in 1..MaxRequests}

\* The command lines `just RECIPE...` of at most MaxRequests recipes.
DepsLines ==
  {[i \in DOMAIN requests |-> Occ(arg_ARGUMENTS, <<requests[i]>>)] :
     requests \in Requests(ExecNames)}

\* Bodies of at most MaxLines lines, each with or without the '-' prefix.
Bodies == UNION {[1..n -> {Line(FALSE, FALSE), Line(FALSE, TRUE)}] : n \in 0..MaxLines}

\* Justfiles of a recipe a and a recipe b that depends on it, with any bodies.
LinesSources ==
  {Source(TRUE, EmptyMap, {}, 0,
          <<Recipe(<<"b">>, <<>>, << <<"a">> >>, b, None),
            Recipe(<<"a">>, <<>>, <<>>, a, None)>>, <<>>) :
     b \in Bodies, a \in Bodies}

\* The command lines `just [--quiet | --dry-run] RECIPE...` of at most
\* MaxRequests recipes.
LinesLines ==
  {flags \o [i \in DOMAIN requests |-> Occ(arg_ARGUMENTS, <<requests[i]>>)] :
     flags \in {<<>>, <<Occ(arg_QUIET, <<>>)>>, <<Occ(arg_DRY_RUN, <<>>)>>},
     requests \in Requests({<<"a">>, <<"b">>})}

\* run_subcommand has found and read the justfile and is about to compile it.
InitExec(lines, sources) ==
  /\ \E line \in lines : ConfiguredBy(line)
  /\ \E src \in sources :
       job = [config |-> Some(from_matches(matcher, "Ok").config), file |-> Some(src),
              search |-> Some("Ok"), read |-> Some("Ok"), src |-> Some(src),
              compiled |-> None, justfile |-> None, compiles |-> 0,
              requests |-> <<>>, stack |-> <<>>, ran |-> {}, result |-> None]
  /\ pc = "compile"
  /\ effects = <<>>
  /\ ret = None

InitDeps == InitExec(DepsLines, DepsSources)

InitLines == InitExec(LinesLines, LinesSources)

\* The Run and Evaluate arms of the match, and Config::run up to its call of
\* justfile.run: the interrupt handler.
ConfigRun ==
  /\ pc = "match"
  /\ job.config[1].subcommand.kind \in {"Run", "Evaluate"}
  /\ \E installed \in BOOLEAN :
       effects' =
         effects
           \o <<Effect("InterruptHandler::install", installed)>>
           \o (IF installed THEN <<>> ELSE <<Effect("warn", "CTRL-C handler")>>)
  /\ pc' = "run"
  /\ UNCHANGED <<ParseVars, job, ret>>

\* Justfile::run, its head, called with the overrides and arguments the match
\* hands over. An override of a name the justfile does not assign is an error;
\* the assignments are evaluated, and Evaluate prints them and is done. Without
\* arguments the first recipe of the file is requested, and a justfile without
\* recipes is an error; every argument must name a recipe, and the requests are
\* the arguments in their order.
JustfileRun ==
  /\ pc = "run"
  /\ LET overrides == RunOverrides(job.config[1].subcommand)
         arguments == RunArguments(job.config[1].subcommand)
         justfile == job.justfile[1]
         call == [overrides |-> overrides, arguments |-> arguments,
                  resolved |-> Justfile_run(justfile, overrides, arguments)]
         failed == /\ job' = [job EXCEPT !.result = Some(ErrResult(EXIT_FAILURE))]
                   /\ pc' = "result"
     IN IF ~(DOMAIN overrides \subseteq DOMAIN justfile.assignments)
        THEN effects' = Append(effects, Effect("justfile.run", call)) /\ failed
        ELSE IF job.config[1].subcommand.kind = "Evaluate"
        THEN /\ effects' =
                  effects
                    \o <<Effect("justfile.run", call),
                         Effect("println",
                                [n \in DOMAIN justfile.assignments |->
                                   Resolve(n, overrides, justfile.assignments)[1]])>>
             /\ job' = [job EXCEPT !.result = Some(OkResult)]
             /\ pc' = "result"
        ELSE /\ effects' = Append(effects, Effect("justfile.run", call))
             /\ IF arguments = <<>>
                THEN IF justfile.first = None THEN failed
                     ELSE /\ job' = [job EXCEPT !.requests = <<justfile.first[1]>>]
                          /\ pc' = "recipes"
                ELSE IF \E i \in DOMAIN arguments :
                          get_recipe(justfile, arguments[i]) = None
                THEN failed
                ELSE /\ job' = [job EXCEPT !.requests = arguments]
                     /\ pc' = "recipes"
  /\ UNCHANGED <<ParseVars, ret>>

\* An invocation of a recipe: the next dependency to visit, and the next line
\* to run once its body has started.
Frame(name) == [name |-> name, dep |-> 1, line |-> 0]

Top == job.stack[Len(job.stack)]

TopRecipe == job.justfile[1].recipes[Top.name]

\* The loop over the requested recipes: one that already ran is not run again.
NextRecipe ==
  /\ pc = "recipes"
  /\ job.stack = <<>>
  /\ IF job.requests = <<>>
     THEN /\ job' = [job EXCEPT !.result = Some(OkResult)]
          /\ pc' = "result"
     ELSE /\ job' = [job EXCEPT !.requests = Tail(@),
                                !.stack = IF Head(job.requests) \in job.ran THEN <<>>
                                          ELSE <<Frame(Head(job.requests))>>]
          /\ pc' = pc
  /\ UNCHANGED <<ParseVars, effects, ret>>

DependencyAlways ==
  /\ pc = "recipes"
  /\ job.stack # <<>>
  /\ Top.line = 0
  /\ Top.dep <= Len(TopRecipe.dependencies)
  /\ job' = [job EXCEPT !.stack =
                Append([job.stack EXCEPT ![Len(job.stack)].dep = @ + 1],
                       Frame(TopRecipe.dependencies[Top.dep]))]
  /\ UNCHANGED <<ParseVars, effects, pc, ret>>

\* The dependencies of a recipe, in declaration order: one that has not run
\* yet is run first.
Dependency ==
  /\ pc = "recipes"
  /\ job.stack # <<>>
  /\ Top.line = 0
  /\ Top.dep <= Len(TopRecipe.dependencies)
  /\ LET dependency == TopRecipe.dependencies[Top.dep]
         advanced == [job.stack EXCEPT ![Len(job.stack)].dep = @ + 1]
     IN job' = [job EXCEPT !.stack = IF dependency \in job.ran THEN advanced
                                     ELSE Append(advanced, Frame(dependency))]
  /\ UNCHANGED <<ParseVars, effects, pc, ret>>

\* Recipe::run begins once the dependencies have run.
RecipeRun ==
  /\ pc = "recipes"
  /\ job.stack # <<>>
  /\ Top.line = 0
  /\ Top.dep > Len(TopRecipe.dependencies)
  /\ effects' = Append(effects, Effect("recipe.run", Top.name))
  /\ job' = [job EXCEPT !.stack[Len(job.stack)].line = 1]
  /\ UNCHANGED <<ParseVars, pc, ret>>

\* What a command's exit status can be: zero, or not.
ExitStatuses == {"0", "1"}

\* Line mode, one line: echoed unless quiet, then run by the shell unless this
\* is a dry run; a nonzero exit ends the run unless the line has the '-' prefix.
RunLine ==
  /\ pc = "recipes"
  /\ job.stack # <<>>
  /\ Top.line >= 1
  /\ Top.line <= Len(TopRecipe.lines)
  /\ LET line == TopRecipe.lines[Top.line]
         at == [recipe |-> Top.name, line |-> Top.line]
         echo == IF line.quiet \/ job.config[1].quiet THEN <<>>
                 ELSE <<Effect("echo", at)>>
         advanced == [job EXCEPT !.stack[Len(job.stack)].line = @ + 1]
     IN IF job.config[1].dry_run
        THEN /\ effects' = effects \o echo
             /\ job' = advanced
             /\ pc' = pc
        ELSE \E status \in ExitStatuses :
               /\ effects' =
                    effects \o echo
                      \o <<Effect("command", [recipe |-> Top.name, line |-> Top.line,
                                              status |-> status])>>
               /\ IF status # "0" /\ ~line.ignore_error
                  THEN /\ job' = [job EXCEPT !.result = Some(ErrResult(status))]
                       /\ pc' = "result"
                  ELSE /\ job' = advanced
                       /\ pc' = pc
  /\ UNCHANGED <<ParseVars, ret>>

\* The recipe's lines have all run: it is recorded as ran.
RecipeDone ==
  /\ pc = "recipes"
  /\ job.stack # <<>>
  /\ Top.line > Len(TopRecipe.lines)
  /\ job' = [job EXCEPT !.ran = @ \cup {Top.name},
                        !.stack = SubSeq(job.stack, 1, Len(job.stack) - 1)]
  /\ UNCHANGED <<ParseVars, effects, pc, ret>>

ConfigRunSwallow ==
  /\ pc = "result"
  /\ UNCHANGED effects
  /\ Return(OkResult)
  /\ UNCHANGED <<ParseVars, job>>

\* Config::run after justfile.run: the error is printed unless quiet, and
\* returned as its code.
ConfigRunResult ==
  /\ pc = "result"
  /\ effects' =
       effects \o (IF ~job.result[1].ok /\ ~job.config[1].quiet
                   THEN <<Effect("eprint_error", "RuntimeError")>> ELSE <<>>)
  /\ Return(job.result[1])
  /\ UNCHANGED <<ParseVars, job>>

NextExec ==
  \/ Compile
  \/ Warn
  \/ ConfigRun
  \/ JustfileRun
  \/ NextRecipe
  \/ Dependency
  \/ RecipeRun
  \/ RunLine
  \/ RecipeDone
  \/ ConfigRunResult

\* run_subcommand on any command line from_matches accepts.
NextRun ==
  \/ Dispatch
  \/ InitExists
  \/ InitCreate
  \/ InitWriteAll
  \/ Find
  \/ Edit
  \/ EditorWrites
  \/ EditorExits
  \/ Read
  \/ Compile
  \/ Warn
  \/ Dump
  \/ List
  \/ Show
  \/ Summary
  \/ Variables
  \/ ConfigRun
  \/ JustfileRun
  \/ NextRecipe
  \/ Dependency
  \/ RecipeRun
  \/ RunLine
  \/ RecipeDone
  \/ ConfigRunResult

SpecRun == InitRun /\ [][NextRun]_vars

\* Runs over every dependency graph, and runs over every body.
SpecDeps == InitDeps /\ [][NextExec]_vars

SpecLines == InitLines /\ [][NextExec]_vars

\* ------------------------------------ recipe parameters: parse, bind, render

MaxParameters == 2

MaxBound == 2

\* How many leading characters of a text form an identifier.
RECURSIVE IdentifierLength(_, _)
IdentifierLength(text, n) ==
  IF n < Len(text)
     /\ text[n + 1] \in (IF n = 0 THEN IdentifierStart ELSE IdentifierContinue)
  THEN IdentifierLength(text, n + 1)
  ELSE n

\* The index of the double quote that closes a cooked string, 0 when none
\* does: a backslash takes the next character with it.
RECURSIVE CookedEnd(_, _)
CookedEnd(text, i) ==
  IF i > Len(text) THEN 0
  ELSE IF text[i] = "\"" THEN i
  ELSE IF text[i] = "\\" THEN CookedEnd(text, i + 2)
  ELSE CookedEnd(text, i + 1)

Parsed(value, rest) == [ok |-> TRUE, value |-> value, rest |-> rest]

NotParsed == [ok |-> FALSE, value |-> None, rest |-> <<>>]

Drop(text, n) == SubSeq(text, n + 1, Len(text))

\* A default value: a raw string, a cooked string or a variable.
parse_value(text) ==
  IF text = <<>> THEN NotParsed
  ELSE IF text[1] = "'"
  THEN LET close == find(Tail(text), "'")
       IN IF close = 0 THEN NotParsed
          ELSE Parsed(Expression("raw", SubSeq(Tail(text), 1, close - 1)),
                      Drop(Tail(text), close))
  ELSE IF text[1] = "\""
  THEN LET close == CookedEnd(Tail(text), 1)
       IN IF close = 0 THEN NotParsed
          ELSE Parsed(Expression("cooked", SubSeq(Tail(text), 1, close - 1)),
                      Drop(Tail(text), close))
  ELSE LET n == IdentifierLength(text, 0)
       IN IF n = 0 THEN NotParsed
          ELSE Parsed(Expression("variable", SubSeq(text, 1, n)), Drop(text, n))

\* What the lexer can make of '*' before a parameter name: the struct has one
\* variadic flag, so it is the same variadic parameter as with '+', or no token.
StarReadings == {"variadic", "UnknownStartOfToken"}

\* A parameter: an optional variadic marker, the name, an optional "=" and
\* default value.
parse_parameter(text, star) ==
  LET marked == text # <<>> /\ text[1] \in {"+", "*"}
      unmarked == IF marked THEN Tail(text) ELSE text
      n == IdentifierLength(unmarked, 0)
      name == SubSeq(unmarked, 1, n)
      rest == Drop(unmarked, n)
  IN IF marked /\ text[1] = "*" /\ star = "UnknownStartOfToken" THEN NotParsed
     ELSE IF n = 0 THEN NotParsed
     ELSE IF rest # <<>> /\ rest[1] = "="
     THEN LET value == parse_value(Tail(rest))
          IN IF value.ok
             THEN Parsed(Parameter(name, marked, Some(value.value)), value.rest)
             ELSE NotParsed
     ELSE Parsed(Parameter(name, marked, None), rest)

\* The parameters of a recipe header, each after a space, up to the colon.
RECURSIVE parse_parameters(_, _, _)
parse_parameters(text, star, parameters) ==
  IF text = <<":">> THEN Parsed(parameters, <<>>)
  ELSE IF text = <<>> \/ text[1] # " " THEN NotParsed
  ELSE LET parameter == parse_parameter(Tail(text), star)
       IN IF parameter.ok
          THEN parse_parameters(parameter.rest, star, Append(parameters, parameter.value))
          ELSE NotParsed

\* Only the last parameter may be variadic, none may repeat a name, and a
\* parameter without a default may not follow one with a default.
WellFormed(parameters) ==
  /\ \A i \in DOMAIN parameters : parameters[i].variadic => i = Len(parameters)
  /\ \A i, k \in DOMAIN parameters : i # k => parameters[i].name # parameters[k].name
  /\ \A i, k \in DOMAIN parameters :
       (i < k /\ parameters[i].default # None /\ ~parameters[k].variadic)
         => parameters[k].default # None

\* A recipe header `name parameter... :` gives the recipe's name and parameters.
parse_header(text, star) ==
  LET n == IdentifierLength(text, 0)
      parameters == parse_parameters(Drop(text, n), star, <<>>)
  IN IF n = 0 \/ ~parameters.ok THEN NotParsed
     ELSE IF ~WellFormed(parameters.value) THEN NotParsed
     ELSE Parsed([name |-> SubSeq(text, 1, n), parameters |-> parameters.value], <<>>)

\* Display for a recipe's header: the name, each parameter after a space, ":".
RECURSIVE Parameters_fmt(_)
Parameters_fmt(parameters) ==
  IF parameters = <<>> THEN <<>>
  ELSE <<" ">> \o Parameter_fmt(Head(parameters)) \o Parameters_fmt(Tail(parameters))

Header_fmt(recipe) == recipe.name \o Parameters_fmt(recipe.parameters) \o <<":">>

\* The text a cooked string stands for.
RECURSIVE Unescape(_)
Unescape(text) ==
  IF text = <<>> THEN <<>>
  ELSE IF text[1] = "\\" /\ Len(text) >= 2
  THEN <<(IF text[2] = "n" THEN "\n" ELSE text[2])>> \o Unescape(Drop(text, 2))
  ELSE <<text[1]>> \o Unescape(Tail(text))

Evaluated(value) == [ok |-> TRUE, value |-> value, error |-> ""]

NotEvaluated(error) == [ok |-> FALSE, value |-> <<>>, error |-> error]

\* The evaluator on a default expression, in a scope of variables.
evaluate_expression(expression, scope) ==
  CASE expression.kind = "raw" -> Evaluated(expression.text)
    [] expression.kind = "cooked" -> Evaluated(Unescape(expression.text))
    [] OTHER -> IF expression.text \in DOMAIN scope
                THEN Evaluated(scope[expression.text])
                ELSE NotEvaluated("UndefinedVariable")

\* The arguments of a variadic parameter as one value, joined by spaces.
RECURSIVE Join(_)
Join(arguments) ==
  IF arguments = <<>> THEN <<>>
  ELSE IF Len(arguments) = 1 THEN arguments[1]
  ELSE arguments[1] \o <<" ">> \o Join(Tail(arguments))

\* The evaluator binding parameters to positional arguments: an argument each,
\* all that are left for a variadic parameter, and for a parameter with no
\* argument its default, or a missing-argument error.
RECURSIVE evaluate_parameters(_, _, _)
evaluate_parameters(parameters, arguments, scope) ==
  IF parameters = <<>>
  THEN (IF arguments = <<>> THEN Evaluated(scope)
        ELSE NotEvaluated("ArgumentCountMismatch"))
  ELSE LET parameter == Head(parameters)
       IN IF arguments # <<>>
          THEN (IF parameter.variadic
                THEN evaluate_parameters(Tail(parameters), <<>>,
                                         Insert(scope, parameter.name, Join(arguments)))
                ELSE evaluate_parameters(Tail(parameters), Tail(arguments),
                                         Insert(scope, parameter.name, Head(arguments))))
          ELSE IF parameter.default = None THEN NotEvaluated("MissingArgument")
          ELSE LET value == evaluate_expression(parameter.default[1], scope)
               IN IF value.ok
                  THEN evaluate_parameters(Tail(parameters), <<>>,
                                           Insert(scope, parameter.name, value.value))
                  ELSE value

\* The i-th parameter's name: f1, f11, ...
ParameterName(i) == <<"f">> \o [k \in 1..i |-> "1"]

Markers == {<<>>, <<"+">>, <<"*">>}

\* No default, a raw string with a space, a cooked string that is an escaped
\* double quote, a variable.
Defaults ==
  {<<>>, <<"=", "'", "x", " ", "y", "'">>, <<"=", "\"", "\\", "\"", "\"">>, <<"=", "b">>}

\* The texts of n parameters, each after a space.
RECURSIVE ParameterTexts(_)
ParameterTexts(n) ==
  IF n = 0 THEN {<<>>}
  ELSE {texts \o <<" ">> \o marker \o ParameterName(n) \o value :
          texts \in ParameterTexts(n - 1), marker \in Markers, value \in Defaults}

\* Recipe headers of at most MaxParameters parameters.
HeaderTexts ==
  {<<"r">> \o parameters \o <<":">> :
     parameters \in UNION {ParameterTexts(n) : n \in 0..MaxParameters}}

\* The arguments a recipe is invoked with: at most MaxBound of them.
ArgumentLists == UNION {[1..n -> {<<"x">>, <<"y">>}] : n \in 0..MaxBound}

\* The variables in scope when the parameters are bound.
BaseScope == (<<"b">> :> <<"y">>)

\* A recipe header is about to be parsed, for a recipe invoked with arguments.
InitParams ==
  /\ argv = <<>>
  /\ matcher = ParserStart.m
  /\ cache = ParserStart.cache
  /\ pending = ParserStart.pending
  /\ trailing = ParserStart.trailing
  /\ phase = "parsing"
  /\ outcome = None
  /\ \E text \in HeaderTexts, arguments \in ArgumentLists :
       job = [config |-> None, text |-> text, arguments |-> arguments,
              parsed |-> None, bound |-> None, rendered |-> None, reparsed |-> None]
  /\ pc = "parse"
  /\ effects = <<>>
  /\ ret = None

\* The header is parsed; a header that does not parse is a compile error.
ParseHeader ==
  /\ pc = "parse"
  /\ \E star \in StarReadings :
       LET header == parse_header(job.text, star)
       IN /\ job' = [job EXCEPT !.parsed = Some(header)]
          /\ IF header.ok THEN pc' = "bind" /\ UNCHANGED <<effects, ret>>
             ELSE EprintAndReturn("CompilationError")
  /\ UNCHANGED ParseVars

\* The recipe is invoked: its parameters are bound to the arguments.
BindParameters ==
  /\ pc = "bind"
  /\ job' = [job EXCEPT !.bound =
               Some(evaluate_parameters(job.parsed[1].value.parameters, job.arguments,
                                        BaseScope))]
  /\ pc' = "render"
  /\ UNCHANGED <<ParseVars, effects, ret>>

\* The recipe's header is printed, as dump prints it.
RenderHeader ==
  /\ pc = "render"
  /\ job' = [job EXCEPT !.rendered = Some(Header_fmt(job.parsed[1].value))]
  /\ effects' = Append(effects, Effect("println", Header_fmt(job.parsed[1].value)))
  /\ pc' = "reparse"
  /\ UNCHANGED <<ParseVars, ret>>

\* The printed header is parsed again.
ParseRendered ==
  /\ pc = "reparse"
  /\ \E star \in StarReadings :
       job' = [job EXCEPT !.reparsed = Some(parse_header(job.rendered[1], star))]
  /\ Return(OkResult)
  /\ UNCHANGED <<ParseVars, effects>>

NextParams ==
  \/ ParseHeader
  \/ BindParameters
  \/ RenderHeader
  \/ ParseRendered

SpecParams == InitParams /\ [][NextParams]_vars

\* ============================================================ properties

\* What a command line says, read off the line itself.  With TrailingVarArg
\* the occurrences clap reads as flags and options are those before the first
\* positional word; from that word on, every word is a positional value.
RECURSIVE FlagPart(_)
FlagPart(line) ==
  IF line = <<>> \/ Head(line).arg = arg_ARGUMENTS THEN <<>>
  ELSE <<Head(line)>> \o FlagPart(Tail(line))

RECURSIVE RawWords(_)
RawWords(line) ==
  IF line = <<>> THEN <<>> ELSE Raw(Head(line)) \o RawWords(Tail(line))

PositionalPart(line) == RawWords(SubSeq(line, Len(FlagPart(line)) + 1, Len(line)))

Given(line, a) == \E i \in DOMAIN FlagPart(line) : FlagPart(line)[i].arg = a

\* The index of the last occurrence of one of the Args in S, 0 when there is none.
LastIndex(fl, S) ==
  IF \E i \in DOMAIN fl : fl[i].arg \in S
  THEN CHOOSE i \in DOMAIN fl : fl[i].arg \in S /\ \A k \in (i + 1)..Len(fl) : fl[k].arg \notin S
  ELSE 0

Produced == phase = "config"

Configured == outcome[1].config

Failed == phase = "config_error"

Failure == outcome[1].error

Accepted == phase \in {"matched", "config", "config_error", "panic"}

\* ---- C1

IsShellArg(tok) == tok.arg = arg_SHELL_ARG

ShellArgsAfterLastClear(fl) ==
  LET rest == SelectSeq(SubSeq(fl, LastIndex(fl, {arg_CLEAR_SHELL_ARGS}) + 1, Len(fl)),
                        IsShellArg)
  IN [i \in 1..Len(rest) |-> rest[i].vals[1]]

\* C1: every Config has shell_args equal to the values of the --shell-arg
\* occurrences after the last --clear-shell-args, in command-line order: all of
\* them when there is no --clear-shell-args, none when --clear-shell-args comes
\* last; with neither flag it is the single default "-cu", and the shell is "sh"
\* unless --shell names another.  Explicit values replace the default.
C1_ShellArgs ==
  Produced =>
    LET fl == FlagPart(argv)
    IN /\ (Given(argv, arg_SHELL_ARG) \/ Given(argv, arg_CLEAR_SHELL_ARGS))
            => Configured.shell_args = ShellArgsAfterLastClear(fl)
       /\ (~Given(argv, arg_SHELL_ARG) /\ ~Given(argv, arg_CLEAR_SHELL_ARGS))
            => Configured.shell_args = <<DEFAULT_SHELL_ARG>>
       /\ LastIndex(fl, {arg_SHELL_ARG, arg_CLEAR_SHELL_ARGS}) # 0
            /\ fl[LastIndex(fl, {arg_SHELL_ARG, arg_CLEAR_SHELL_ARGS})].arg
                 = arg_CLEAR_SHELL_ARGS
            => Configured.shell_args = <<>>
       /\ ~Given(argv, arg_SHELL) => Configured.shell = DEFAULT_SHELL
       /\ Given(argv, arg_SHELL_ARG)
            => \A i \in DOMAIN Configured.shell_args :
                 \E k \in DOMAIN fl : /\ fl[k].arg = arg_SHELL_ARG
                                      /\ fl[k].vals[1] = Configured.shell_args[i]

\* A Config from a line with a --shell-arg, then --clear-shell-args, then
\* another --shell-arg.
C1_Witness ==
  /\ Produced
  /\ \E i, j, k \in DOMAIN FlagPart(argv) :
       /\ i < j /\ j < k
       /\ FlagPart(argv)[i].arg = arg_SHELL_ARG
       /\ FlagPart(argv)[j].arg = arg_CLEAR_SHELL_ARGS
       /\ FlagPart(argv)[k].arg = arg_SHELL_ARG
  /\ Len(Configured.shell_args) = 1

\* ---- C2

IsSet(tok) == tok.arg = arg_SET

\* The --set pairs of the line, in order.
SetPairs(line) ==
  LET sets == SelectSeq(FlagPart(line), IsSet)
  IN [i \in 1..Len(sets) |-> sets[i].vals]

\* The positional overrides of the line, in order: the words of the form
\* NAME=VALUE that come before any other positional word.
RECURSIVE LeadingOverrides(_)
LeadingOverrides(words) ==
  IF words = <<>> \/ override_from_value(Head(words)) = None THEN <<>>
  ELSE <<override_from_value(Head(words))[1]>> \o LeadingOverrides(Tail(words))

PositionalPairs(line) == LeadingOverrides(PositionalPart(line))

Names(pairs) == {pairs[i][1] : i \in DOMAIN pairs}

LastValue(pairs, n) ==
  pairs[CHOOSE i \in DOMAIN pairs :
          pairs[i][1] = n /\ \A k \in (i + 1)..Len(pairs) : pairs[k][1] # n][2]

\* The override map the line asks for.
WantedOverrides(line) ==
  [n \in Names(SetPairs(line)) \cup Names(PositionalPairs(line)) |->
     IF n \in Names(PositionalPairs(line)) THEN LastValue(PositionalPairs(line), n)
     ELSE LastValue(SetPairs(line), n)]

\* The override map from_matches built, where its result shows it.
OverridesShown ==
  IF Produced /\ Configured.subcommand.kind \in {"Run", "Evaluate"}
    THEN Some(Configured.subcommand.overrides)
  ELSE IF Failed /\ Failure.kind \in {"SubcommandOverrides", "SubcommandOverridesAndArguments"}
    THEN Some(Failure.overrides)
  ELSE None

\* C2: the override map holds one value per name: the value of the last
\* positional NAME=VALUE override for the name if there is one, otherwise that
\* of the last --set pair for it; an empty value is kept; and a positional word
\* that starts with '=' is a recipe argument, not an override.
C2_Overrides ==
  /\ OverridesShown # None => OverridesShown[1] = WantedOverrides(argv)
  /\ (Produced /\ Configured.subcommand.kind = "Run" /\ PositionalPart(argv) # <<>>
        /\ Head(PositionalPart(argv)) # <<>> /\ Head(PositionalPart(argv))[1] = "=")
       => /\ Configured.subcommand.arguments = PositionalPart(argv)
          /\ DOMAIN Configured.subcommand.overrides = Names(SetPairs(argv))

\* A Run whose line sets f twice with --set and once more positionally, or
\* overrides f with the empty value.
C2_Witness ==
  /\ Produced
  /\ Configured.subcommand.kind = "Run"
  /\ Len(SetPairs(argv)) = 2
  /\ SetPairs(argv)[1][1] = <<"f">> /\ SetPairs(argv)[2][1] = <<"f">>
  /\ SetPairs(argv)[1][2] # SetPairs(argv)[2][2]
  /\ Len(PositionalPairs(argv)) = 1
  /\ PositionalPairs(argv)[1][1] = <<"f">>
  /\ Configured.subcommand.overrides[<<"f">>] \in {<<>>, <<"y">>}

\* ---- C5

PositionalOf(line) ==
  Positional_from_values(IF PositionalPart(line) = <<>> THEN None
                         ELSE Some(PositionalPart(line)))

WantedArguments(line) == PositionalOf(line).arguments

FlagText(a) == <<"-", "-", Long(a)>>

\* from_matches has returned, a Config or a ConfigError, or it has panicked.
Returned == phase \in {"config", "config_error", "panic"}

Panicked == phase = "panic"

\* from_matches stopped at its first statement: env::current_dir() failed.
CurrentDirFailed == Failed /\ Failure.kind = "CurrentDir"

\* Some --set of the line comes without its second value.
SetLacksValue(line) == \E i \in DOMAIN SetPairs(line) : Len(SetPairs(line)[i]) < 2

\* The line names a search directory and also --justfile or --working-directory.
SearchConflict(line) ==
  /\ PositionalOf(line).search_directory # None
  /\ Given(line, arg_JUSTFILE) \/ Given(line, arg_WORKING_DIRECTORY)

\* --completions, --dump, --edit, --init, --list, --show, --summary, --variables
ArglessFlags ==
  {"COMPLETIONS", "DUMP", "EDIT", "INIT", "LIST", "SHOW", "SUMMARY", "VARIABLES"}

\* What the claim says of an argument-less subcommand a: a Config only without
\* overrides and recipe arguments, else the error of the three that names what
\* the line gives, with "--<flag>" and exactly the arguments and overrides.
ArglessOutcome(a) ==
  LET ov == WantedOverrides(argv)
      named == Names(SetPairs(argv)) \cup Names(PositionalPairs(argv))
      args == WantedArguments(argv)
  IN /\ Produced => named = {} /\ is_empty(args)
     /\ (named = {} /\ ~is_empty(args))
          => Failed /\ Failure = ConfigError("SubcommandArguments", Some(FlagText(a)),
                                             args, EmptyMap)
     /\ (named # {} /\ is_empty(args))
          => Failed /\ Failure = ConfigError("SubcommandOverrides", Some(FlagText(a)),
                                             <<>>, ov)
     /\ (named # {} /\ ~is_empty(args))
          => Failed /\ Failure = ConfigError("SubcommandOverridesAndArguments",
                                             Some(FlagText(a)), args, ov)

\* The exits of from_matches that come before the search configuration, in the
\* order of the code: CurrentDir when the invocation directory cannot be read,
\* then the panic of the --set loop, which happens exactly when some --set
\* lacks its second value.
EarlierExits ==
  /\ Panicked <=> (~CurrentDirFailed /\ SetLacksValue(argv))
  /\ CurrentDirFailed => Failure = ConfigError("CurrentDir", None, <<>>, EmptyMap)

\* C5 as stated, for the lines on which from_matches comes to look at the
\* subcommand (the invocation directory is read, and no search directory is
\* named together with --justfile or --working-directory): with an
\* argument-less subcommand, from_matches succeeds only without overrides and
\* recipe arguments, and otherwise fails with SubcommandArguments,
\* SubcommandOverrides or SubcommandOverridesAndArguments, carrying "--<flag>"
\* and exactly the arguments and overrides.
C5_AsStated ==
  \A a \in ArglessFlags :
    (Returned /\ Given(argv, a) /\ ~CurrentDirFailed /\ ~SearchConflict(argv))
      => ArglessOutcome(a)

\* What from_matches does with an argument-less subcommand: it fails with
\* CurrentDir, or panics in the --set loop, or fails with SearchDirConflict,
\* in this order, and only then does what C5 says.
ArglessInOrder ==
  \A a \in ArglessFlags :
    (Returned /\ Given(argv, a)) =>
      /\ EarlierExits
      /\ (~CurrentDirFailed /\ ~Panicked /\ SearchConflict(argv))
           => Failed /\ Failure.kind = "SearchDirConflict"
      /\ (~CurrentDirFailed /\ ~Panicked /\ ~SearchConflict(argv)) => ArglessOutcome(a)

\* --list with two --set that have one value each: clap has accepted the line
\* and from_matches has panicked.
C5_Witness ==
  /\ Panicked
  /\ Given(argv, cmd_LIST)
  /\ SetPairs(argv) = << << <<"f">> >>, << <<"f">> >> >>

\* ---- C6

\* What the claim says of --evaluate: without recipe arguments an Evaluate
\* with the line's overrides, with any the SubcommandArguments error.
EvaluateOutcome ==
  LET ov == WantedOverrides(argv)
      args == WantedArguments(argv)
  IN /\ is_empty(args)
          => Produced /\ Configured.subcommand = Subcommand("Evaluate", <<>>, ov, None)
     /\ ~is_empty(args)
          => Failed /\ Failure = ConfigError("SubcommandArguments",
                                             Some(FlagText(cmd_EVALUATE)), args, EmptyMap)

\* C6 as stated, for the lines on which from_matches comes to look at the
\* subcommand (the invocation directory is read, and no search directory is
\* named together with --justfile or --working-directory): with --evaluate, no
\* recipe argument gives Subcommand::Evaluate with the full override map, and
\* any recipe argument gives SubcommandArguments{"--evaluate", arguments}, with
\* or without overrides.
C6_AsStated ==
  (Returned /\ Given(argv, cmd_EVALUATE) /\ ~CurrentDirFailed /\ ~SearchConflict(argv))
    => EvaluateOutcome

\* What from_matches does with --evaluate: it fails with CurrentDir, or panics
\* in the --set loop, or fails with SearchDirConflict, in this order, and only
\* then does what C6 says.
EvaluateInOrder ==
  (Returned /\ Given(argv, cmd_EVALUATE)) =>
    /\ EarlierExits
    /\ (~CurrentDirFailed /\ ~Panicked /\ SearchConflict(argv))
         => Failed /\ Failure.kind = "SearchDirConflict"
    /\ (~CurrentDirFailed /\ ~Panicked /\ ~SearchConflict(argv)) => EvaluateOutcome

\* --evaluate with two --set that have one value each: clap has accepted the
\* line and from_matches has panicked instead of giving an Evaluate.
C6_Witness ==
  /\ Panicked
  /\ Given(argv, cmd_EVALUATE)
  /\ SetPairs(argv) = << << <<"f">> >>, << <<"f">> >> >>
  /\ WantedArguments(argv) = <<>>

\* ---- C7

\* The value of the last occurrence of option a on the line.
ValueGiven(line, a) == FlagPart(line)[LastIndex(FlagPart(line), {a})].vals[1]

HasTail(word) == rfind(word, "/") # 0 /\ rfind(word, "/") < Len(word)

\* The search configuration the claim gives a line.
WantedSearchConfig(line) ==
  LET dir == PositionalOf(line).search_directory
      j == Given(line, arg_JUSTFILE)
      w == Given(line, arg_WORKING_DIRECTORY)
  IN IF dir # None
       THEN [kind |-> "FromSearchDirectory",
             search_directory |-> Some(PathBuf_from(dir[1])),
             justfile |-> None, working_directory |-> None]
     ELSE IF ~j /\ ~w
       THEN [kind |-> "FromInvocationDirectory", search_directory |-> None,
             justfile |-> None, working_directory |-> None]
     ELSE IF j /\ ~w
       THEN [kind |-> "WithJustfile", search_directory |-> None,
             justfile |-> Some(PathBuf_from(ValueGiven(line, arg_JUSTFILE))),
             working_directory |-> None]
     ELSE [kind |-> "WithJustfileAndWorkingDirectory", search_directory |-> None,
           justfile |-> Some(PathBuf_from(ValueGiven(line, arg_JUSTFILE))),
           working_directory |->
             Some(PathBuf_from(ValueGiven(line, arg_WORKING_DIRECTORY)))]

\* The errors of from_matches that come after the search configuration.
SubcommandErrors ==
  {"SubcommandArguments", "SubcommandOverrides", "SubcommandOverridesAndArguments"}

\* What the claim says of the search configuration, where from_matches came
\* to decide it.
SearchConfigOutcome ==
  LET words == PositionalPart(argv)
  IN /\ SearchConflict(argv) => Failed /\ Failure.kind = "SearchDirConflict"
     /\ ~SearchConflict(argv)
          => \/ Produced /\ Configured.search_config = WantedSearchConfig(argv)
             \/ Failed /\ Failure.kind \in SubcommandErrors
     /\ (Produced /\ Configured.subcommand.kind = "Run" /\ words # <<>>
           /\ override_from_value(Head(words)) = None /\ HasTail(Head(words)))
          => Configured.subcommand.arguments
               = <<SubSeq(Head(words), rfind(Head(words), "/") + 1, Len(Head(words)))>>
                   \o Tail(words)

\* C7 as stated, for the runs in which the invocation directory is read: the
\* search configuration is decided by the search directory, --justfile and
\* --working-directory, for every line clap accepts: a search directory with
\* either flag fails with SearchDirConflict; alone it gives
\* FromSearchDirectory; without one, no flag gives FromInvocationDirectory,
\* --justfile alone WithJustfile, both flags WithJustfileAndWorkingDirectory;
\* --working-directory without --justfile is never accepted; and the recipe
\* part of dir/recipe stays in the Run arguments.
C7_AsStated ==
  /\ (Returned /\ ~CurrentDirFailed) => SearchConfigOutcome
  /\ (Given(argv, arg_WORKING_DIRECTORY) /\ ~Given(argv, arg_JUSTFILE)) => ~Accepted

\* What from_matches does about the search configuration: it fails with
\* CurrentDir, or panics in the --set loop, and only then does what C7 says.
SearchConfigInOrder ==
  /\ Returned => EarlierExits
  /\ (Returned /\ ~CurrentDirFailed /\ ~Panicked) => SearchConfigOutcome
  /\ (Given(argv, arg_WORKING_DIRECTORY) /\ ~Given(argv, arg_JUSTFILE)) => ~Accepted

\* --justfile and two --set that have one value each, no search directory:
\* clap has accepted the line and from_matches has panicked instead of giving
\* WithJustfile.
C7_Witness ==
  /\ Panicked
  /\ Given(argv, arg_JUSTFILE)
  /\ ~Given(argv, arg_WORKING_DIRECTORY)
  /\ PositionalOf(argv).search_directory = None
  /\ SetPairs(argv) = << << <<"f">> >>, << <<"f">> >> >>

\* ---- C8

IsHighlightFlag(tok) == tok.arg \in {arg_HIGHLIGHT, arg_NO_HIGHLIGHT}

HighlightFlags(line) == SelectSeq(FlagPart(line), IsHighlightFlag)

\* C8: every Config has highlight true exactly when the line's sequence of
\* --highlight and --no-highlight flags is empty or ends with --highlight.
C8_Highlight ==
  Produced =>
    LET flags == HighlightFlags(argv)
    IN Configured.highlight <=> (flags = <<>> \/ flags[Len(flags)].arg = arg_HIGHLIGHT)

\* A Config from --no-highlight, --highlight, --no-highlight.
C8_Witness ==
  /\ Produced
  /\ Len(HighlightFlags(argv)) = 3
  /\ HighlightFlags(argv)[1].arg = arg_NO_HIGHLIGHT
  /\ ~Configured.highlight

\* ---- C9

\* C9: no Config has both dry_run and quiet; a line with both --dry-run and
\* --quiet, in either order, is rejected by clap; and with neither flag both
\* fields are false.
C9_DryRunQuiet ==
  /\ Produced => ~(Configured.dry_run /\ Configured.quiet)
  /\ (Given(argv, arg_DRY_RUN) /\ Given(argv, arg_QUIET)) => ~Accepted
  /\ Produced => (Configured.dry_run <=> Given(argv, arg_DRY_RUN))
  /\ Produced => (Configured.quiet <=> Given(argv, arg_QUIET))

\* clap has refused a line with --quiet first and --dry-run after it.
C9_Witness ==
  /\ phase = "clap_error"
  /\ outcome = Some("ArgumentConflict")
  /\ \E i, k \in DOMAIN FlagPart(argv) :
       i < k /\ FlagPart(argv)[i].arg = arg_QUIET /\ FlagPart(argv)[k].arg = arg_DRY_RUN

\* ---- C10

\* C10: every Config has shell_present true exactly when --shell, --shell-arg
\* or --clear-shell-args was given, also when a later --clear-shell-args cancels
\* a --shell-arg or the reverse.
C10_ShellPresent ==
  Produced =>
    (Configured.shell_present <=>
       \/ Given(argv, arg_SHELL)
       \/ Given(argv, arg_SHELL_ARG)
       \/ Given(argv, arg_CLEAR_SHELL_ARGS))

\* A Config from --shell-arg followed by --clear-shell-args: no shell argument
\* is left, and shell_present is set.
C10_Witness ==
  /\ Produced
  /\ Configured.shell_present
  /\ Configured.shell_args = <<>>
  /\ Given(argv, arg_SHELL_ARG)
  /\ ~Given(argv, arg_SHELL)

\* ---- C3

Calls == {i \in DOMAIN effects : effects[i].op = "justfile.run"}

\* C3: for Run and Evaluate the override map of the Config is what justfile.run
\* receives, and with it every reference to an overridden variable that the
\* justfile also assigns evaluates to the override's value.
C3_OverridesWin ==
  /\ \A i \in Calls :
       LET call == effects[i].arg
       IN /\ Configured.subcommand.kind \in {"Run", "Evaluate"}
          /\ call.overrides = Configured.subcommand.overrides
          /\ call.overrides = WantedOverrides(argv)
          /\ \A n \in DOMAIN call.resolved :
               n \in DOMAIN Configured.subcommand.overrides
                 => call.resolved[n] = Some(Configured.subcommand.overrides[n])
  /\ (pc = "done" /\ job.compiled = Some("Ok")
        /\ Configured.subcommand.kind \in {"Run", "Evaluate"}) => Calls # {}

\* justfile.run was called for --evaluate with f overridden, on a justfile that
\* assigns f another value and refers to f.
C3_Witness ==
  /\ Configured.subcommand.kind = "Evaluate"
  /\ \E i \in Calls :
       /\ <<"f">> \in DOMAIN effects[i].arg.overrides
       /\ <<"f">> \in DOMAIN job.justfile[1].assignments
       /\ job.justfile[1].assignments[<<"f">>] # effects[i].arg.overrides[<<"f">>]
       /\ effects[i].arg.resolved[<<"f">>] = Some(effects[i].arg.overrides[<<"f">>])

\* ---- C4

LoadFailed ==
  \/ job.search = Some("Err")
  \/ job.read = Some("Err")
  \/ job.compiled = Some("Err")

\* C4: for a subcommand that needs a justfile, when finding, reading or
\* compiling the justfile fails, run_subcommand returns Err having done nothing
\* but print that error: no warning, no interrupt handler, no justfile.run, no
\* reporting handler; and whatever else it does, it does after a successful
\* compilation.
C4_AllOrNothing ==
  Configured.subcommand.kind \in NeedsJustfile =>
    /\ LoadFailed =>
         /\ pc = "done"
         /\ ret = Some(ErrResult(EXIT_FAILURE))
         /\ Len(effects) = 1
         /\ effects[1].op = "eprint_error"
    /\ \A i \in DOMAIN effects :
         effects[i].op # "eprint_error" \/ i > 1 => job.compiled = Some("Ok")

\* A Run whose justfile did not compile has returned.
C4_Witness ==
  /\ Configured.subcommand.kind = "Run"
  /\ job.compiled = Some("Err")
  /\ pc = "done"

\* ---- C11

Reporting == {"Dump", "List", "Show", "Summary", "Variables"}

Ops == {effects[i].op : i \in DOMAIN effects}

\* C11: a reporting subcommand (dump, list, show, summary, variables) only
\* prints: it installs no interrupt handler, calls no justfile.run and starts no
\* child process, the justfile is compiled once, before the handler, and the
\* handler reads that compiled Justfile; the interrupt handler and justfile.run
\* are reached only from Run and Evaluate.
C11_ReportingOnlyReads ==
  /\ \A i \in DOMAIN effects :
       effects[i].op \in {"InterruptHandler::install", "justfile.run", "recipe.run",
                          "echo", "command"}
         => Configured.subcommand.kind \in {"Run", "Evaluate"}
  /\ Configured.subcommand.kind \in Reporting =>
       /\ Ops \subseteq {"eprint_error", "eprintln_warning", "println", "eprintln"}
       /\ job.compiles <= 1
       /\ (pc = "done" /\ job.compiled = Some("Ok")) =>
            /\ job.compiles = 1
            /\ job.justfile = Some(Compiler_compile(job.src[1]).justfile)
            /\ ret # None

\* --summary has returned after printing the recipes of a compiled justfile.
C11_Witness ==
  /\ Configured.subcommand.kind = "Summary"
  /\ pc = "done"
  /\ ret = Some(OkResult)
  /\ job.compiles = 1
  /\ \E i \in DOMAIN effects : effects[i].op = "println"

\* ---- C12

IsRecipeRun(effect) == effect.op = "recipe.run"

\* The recipes whose bodies were started, in the order they were started.
Started ==
  LET runs == SelectSeq(effects, IsRecipeRun)
  IN [i \in DOMAIN runs |-> runs[i].arg]

\* A depth-first walk from the requested names in request order: a recipe
\* takes its place after its dependencies, where it is first met.
RECURSIVE Walk(_, _, _)
Walk(recipes, names, done) ==
  IF names = <<>> THEN done
  ELSE IF Head(names) \in Range(done) THEN Walk(recipes, Tail(names), done)
  ELSE Walk(recipes, Tail(names),
            Append(Walk(recipes, recipes[Head(names)].dependencies, done), Head(names)))

IsPrefix(s, t) == Len(s) <= Len(t) /\ SubSeq(t, 1, Len(s)) = s

\* C12: in a run of a compiled (hence acyclic) justfile no recipe is started
\* twice, every dependency of a started recipe was started, and ran all the
\* commands it ran, before it, the recipes are started in the order of the
\* depth-first walk from the requests, and a run that succeeds has started
\* exactly the recipes reachable from the requests.
C12_DependencyOrder ==
  job.compiled = Some("Ok") =>
    LET recipes == job.justfile[1].recipes
        requested == Configured.subcommand.arguments
    IN /\ \A i, k \in DOMAIN Started : i # k => Started[i] # Started[k]
       /\ \A i \in DOMAIN Started :
            \A d \in Range(recipes[Started[i]].dependencies) :
              \E k \in 1..(i - 1) : Started[k] = d
       /\ \A i, k \in DOMAIN effects :
            (/\ effects[i].op = "recipe.run"
             /\ effects[k].op = "command"
             /\ effects[k].arg.recipe \in Range(recipes[effects[i].arg].dependencies))
              => k < i
       /\ IsPrefix(Started, Walk(recipes, requested, <<>>))
       /\ (pc = "done" /\ ret = Some(OkResult)) =>
            /\ Started = Walk(recipes, requested, <<>>)
            /\ Range(Started) = Reach(job.src[1].recipes, Range(requested),
                                      Len(job.src[1].recipes))

\* `just b a` has succeeded on a justfile where b depends on a and c, c on a,
\* and the bodies have lines: a was started once, first, and b last.
C12_Witness ==
  /\ pc = "done"
  /\ ret = Some(OkResult)
  /\ job.compiled = Some("Ok")
  /\ Configured.subcommand.arguments = << <<"b">>, <<"a">> >>
  /\ job.justfile[1].recipes[<<"b">>].dependencies = << <<"c">>, <<"a">> >>
  /\ job.justfile[1].recipes[<<"c">>].dependencies = << <<"a">> >>
  /\ Started = << <<"a">>, <<"c">>, <<"b">> >>
  /\ \E i \in DOMAIN effects : effects[i].op = "command"

\* ---- C13

IsCommand(effect) == effect.op = "command"

\* The lines whose commands were run, in the order they were run.
Commands ==
  LET runs == SelectSeq(effects, IsCommand)
  IN [i \in DOMAIN runs |-> [recipe |-> runs[i].arg.recipe, line |-> runs[i].arg.line]]

\* Every line of the given recipes, in order.
RECURSIVE LinesOf(_, _)
LinesOf(recipes, names) ==
  IF names = <<>> THEN <<>>
  ELSE [i \in DOMAIN recipes[Head(names)].lines |-> [recipe |-> Head(names), line |-> i]]
         \o LinesOf(recipes, Tail(names))

\* The command at an index of the effects exited nonzero, with or without the
\* '-' prefix on its line.
Nonzero(i) == effects[i].op = "command" /\ effects[i].arg.status # "0"

Ignored(i) ==
  job.justfile[1].recipes[effects[i].arg.recipe].lines[effects[i].arg.line].ignore_error

\* C13: in line mode the commands run in the order of the recipes and their
\* lines; after a nonzero exit on a line without the '-' prefix no later line
\* is echoed or run and no later recipe is started, and Config::run returns an
\* error; nonzero exits on lines with the '-' prefix alone end nothing: the run
\* goes on to the next line and, when it ends, it has run every line and
\* returned Ok.
C13_LineErrors ==
  job.compiled = Some("Ok") =>
    LET recipes == job.justfile[1].recipes
        expected == LinesOf(recipes, Walk(recipes, Configured.subcommand.arguments, <<>>))
        fatal == {i \in DOMAIN effects : Nonzero(i) /\ ~Ignored(i)}
    IN /\ IsPrefix(Commands, expected)
       /\ \A i \in fatal :
            /\ \A k \in DOMAIN effects :
                 k > i => effects[k].op \notin {"echo", "command", "recipe.run"}
            /\ job.result = Some(ErrResult(effects[i].arg.status))
            /\ pc \in {"result", "done"}
            /\ pc = "done" => ret = Some(ErrResult(effects[i].arg.status))
       /\ fatal = {} =>
            /\ job.result \in {None, Some(OkResult)}
            /\ pc = "done" =>
                 /\ ret = Some(OkResult)
                 /\ ~Configured.dry_run => Commands = expected

\* A run has returned an error after a nonzero exit on a line with the '-'
\* prefix, then a later line, then a nonzero exit on a line without it, with
\* lines and recipes left to run.
C13_Witness ==
  /\ pc = "done"
  /\ ret # None
  /\ ~ret[1].ok
  /\ \E i, k \in DOMAIN effects :
       /\ i < k
       /\ Nonzero(i) /\ Ignored(i)
       /\ Nonzero(k) /\ ~Ignored(k)
  /\ Len(Commands) <
       Len(LinesOf(job.justfile[1].recipes,
                   Walk(job.justfile[1].recipes, Configured.subcommand.arguments, <<>>)))

\* ------------------------------------------------------------ C14, C15

\* The header under parsing declares one parameter, marked `marker`, with no
\* default, and the recipe is invoked with no arguments.
Lone(marker) ==
  /\ job.text = <<"r", " ">> \o marker \o ParameterName(1) \o <<":">>
  /\ job.arguments = <<>>

\* C14: a parameter `*files` bound to zero arguments evaluates to the empty
\* string, a parameter `+files` bound to zero arguments fails with a
\* missing-argument error, and the Parameter parsed from the zero-or-more form
\* differs from the one parsed from the one-or-more form.
C14_AsStated ==
  /\ (Lone(<<"*">>) /\ pc \in {"render", "reparse", "done"})
       => /\ job.bound # None
          /\ job.bound[1].ok
          /\ job.bound[1].value[ParameterName(1)] = <<>>
  /\ (Lone(<<"+">>) /\ job.bound # None)
       => job.bound[1] = NotEvaluated("MissingArgument")
  /\ (Lone(<<"*">>) /\ job.parsed # None /\ job.parsed[1].ok)
       => job.parsed[1].value
            # parse_header(<<"r", " ", "+">> \o ParameterName(1) \o <<":">>, "variadic").value

\* A recipe whose one parameter is written `*f1` has been invoked with no
\* arguments, and binding its parameter has failed.
C14_Witness ==
  /\ Lone(<<"*">>)
  /\ job.parsed # None /\ job.parsed[1].ok
  /\ job.parsed[1].value.parameters = <<Parameter(ParameterName(1), TRUE, None)>>
  /\ job.bound = Some(NotEvaluated("MissingArgument"))

\* The variadic kind the grammar gives a parameter by its marker.
VariadicKind(text) ==
  IF text # <<>> /\ text[1] = "*" THEN "zero-or-more"
  ELSE IF text # <<>> /\ text[1] = "+" THEN "one-or-more"
  ELSE "single"

\* The variadic kinds of the parameters of a header, read off its text from
\* the first parameter on.
RECURSIVE ParameterKinds(_, _)
ParameterKinds(text, kinds) ==
  IF text = <<>> \/ text[1] # " " THEN kinds
  ELSE LET parameter == parse_parameter(Tail(text), "variadic")
       IN IF parameter.ok
          THEN ParameterKinds(parameter.rest, Append(kinds, VariadicKind(Tail(text))))
          ELSE kinds

HeaderKinds(text) == ParameterKinds(Drop(text, IdentifierLength(text, 0)), <<>>)

\* C15, on recipe headers: a well-formed header compiles, and what Display
\* prints for it parses back to the same name and to parameters with the same
\* names, the same variadic kinds and equal defaults.
C15_AsStated ==
  /\ (job.parsed # None /\ parse_header(job.text, "variadic").ok) => job.parsed[1].ok
  /\ (pc = "done" /\ job.reparsed # None)
       => /\ job.reparsed[1].ok
          /\ job.reparsed[1].value.name = job.parsed[1].value.name
          /\ Len(job.reparsed[1].value.parameters) = Len(job.parsed[1].value.parameters)
          /\ \A i \in DOMAIN job.parsed[1].value.parameters :
               LET before == job.parsed[1].value.parameters[i]
                   after == job.reparsed[1].value.parameters[i]
               IN /\ after.name = before.name
                  /\ after.default = before.default
          /\ HeaderKinds(job.rendered[1]) = HeaderKinds(job.text)

\* The round trip on the structure the code has, where the two variadic kinds
\* are one flag: the printed header parses back to equal Parameters.
RoundTripOfFlags ==
  (pc = "done" /\ job.reparsed # None)
    => /\ job.reparsed[1].ok
       /\ job.reparsed[1].value = job.parsed[1].value

\* The header `r *f1:` has compiled, was printed as `r +f1:`, and that text
\* has been parsed again: the zero-or-more parameter came back as one-or-more.
C15_Witness ==
  /\ pc = "done"
  /\ job.text = <<"r", " ", "*">> \o ParameterName(1) \o <<":">>
  /\ job.rendered = Some(<<"r", " ", "+">> \o ParameterName(1) \o <<":">>)
  /\ job.reparsed # None
  /\ job.reparsed[1].ok
  /\ HeaderKinds(job.text) = <<"zero-or-more">>
  /\ HeaderKinds(job.rendered[1]) = <<"one-or-more">>

\* ------------------------------------------------------------ C16

\* Config::show has returned for a compiled justfile.
Shown ==
  /\ pc = "done"
  /\ job.config[1].subcommand.kind = "Show"
  /\ job.justfile # None

\* What the handler did after the warnings were printed.
Handling ==
  SubSeq(effects, job.justfile[1].warnings + 1, Len(effects))

\* C16: Config::show never panics; a name in the alias table prints the alias
\* and then its target's recipe, which is always there; otherwise a name in
\* the recipe table prints that recipe; and show returns Err(EXIT_FAILURE)
\* exactly when the name is in neither table.
C16_ShowResolves ==
  Shown =>
    LET name == job.config[1].subcommand.value[1]
        justfile == job.justfile[1]
    IN /\ \A i \in DOMAIN effects : effects[i].op # "panic"
       /\ ret \in {Some(OkResult), Some(ErrResult(EXIT_FAILURE))}
       /\ name \in DOMAIN justfile.aliases
            => /\ justfile.aliases[name].target \in DOMAIN justfile.recipes
               /\ Handling = <<Effect("println", justfile.aliases[name]),
                               Effect("println",
                                      justfile.recipes[justfile.aliases[name].target])>>
       /\ (name \notin DOMAIN justfile.aliases /\ name \in DOMAIN justfile.recipes)
            => Handling = <<Effect("println", justfile.recipes[name])>>
       /\ ret = Some(ErrResult(EXIT_FAILURE))
            <=> name \notin (DOMAIN justfile.aliases \cup DOMAIN justfile.recipes)

\* show has printed an alias that shadows a recipe of the same name, and the
\* recipe the alias stands for.
C16_Witness ==
  /\ Shown
  /\ ret = Some(OkResult)
  /\ LET name == job.config[1].subcommand.value[1]
         justfile == job.justfile[1]
     IN /\ name \in DOMAIN justfile.aliases
        /\ name \in DOMAIN justfile.recipes
        /\ justfile.aliases[name].target # name

\* ------------------------------------------------------------ C18

\* Config::list has returned.
Listed ==
  /\ pc = "done"
  /\ job.config[1].subcommand.kind = "List"
  /\ job.justfile # None

\* Config::summary has returned.
Summarized ==
  /\ pc = "done"
  /\ job.config[1].subcommand.kind = "Summary"
  /\ job.justfile # None

\* The non-private recipes of a justfile.
Public(justfile) == {name \in DOMAIN justfile.recipes : ~justfile.recipes[name].private}

\* A line of the listing names a recipe or, with "alias for", an alias.
ListedRightly(line, justfile) ==
  IF line.doc # None /\ line.doc[1].alias_for
  THEN /\ line.name \in DOMAIN justfile.aliases
       /\ line.name[1] # "_"
       /\ justfile.aliases[line.name].target \in Public(justfile)
       /\ line.doc[1].text = justfile.aliases[line.name].target
  ELSE line.name \in Public(justfile)

\* C18: every name Config::list prints is a non-private recipe, or a
\* non-private alias whose target is a non-private recipe; Config::summary
\* prints exactly the non-private recipe names in the order of the recipe
\* table, or with no recipes at all the no-recipes notice, and returns Ok.
C18_ListAndSummary ==
  /\ Listed
       => /\ ret = Some(OkResult)
          /\ Handling # <<>>
          /\ Handling[1] = Effect("println", "Available recipes:")
          /\ \A i \in 2..Len(Handling) :
               /\ Handling[i].op = "println"
               /\ ListedRightly(Handling[i].arg, job.justfile[1])
  /\ Summarized
       => /\ ret = Some(OkResult)
          /\ Len(Handling) = 1
          /\ IF DOMAIN job.justfile[1].recipes = {}
             THEN Handling[1] = Effect("eprintln", "Justfile contains no recipes.")
             ELSE /\ Handling[1].op = "println"
                  /\ Range(Handling[1].arg) = Public(job.justfile[1])
                  /\ \A i \in 1..(Len(Handling[1].arg) - 1) :
                       Less(Handling[1].arg[i], Handling[1].arg[i + 1])

\* list has printed an alias under its recipe, for a justfile that also has a
\* private recipe with a non-private alias, which are not printed.
C18_Witness ==
  /\ Listed
  /\ \E i \in 2..Len(Handling) :
       Handling[i].arg.doc # None /\ Handling[i].arg.doc[1].alias_for
  /\ \E name \in DOMAIN job.justfile[1].aliases :
       /\ name[1] # "_"
       /\ job.justfile[1].aliases[name].target \notin Public(job.justfile[1])

\* summary has printed two names of a justfile that has a private recipe too.
C18_SummaryReached ==
  /\ Summarized
  /\ Handling[1].op = "println"
  /\ Len(Handling[1].arg) = 2
  /\ Public(job.justfile[1]) # DOMAIN job.justfile[1].recipes

\* summary has printed the notice for a justfile without recipes.
C18_NoRecipesReached ==
  /\ Summarized
  /\ DOMAIN job.justfile[1].recipes = {}

\* ------------------------------------------------------------ C17

\* Every `just --init` process started so far, the one taking steps first.
InitCalls == <<[pc |-> pc, ret |-> ret]>> \o job.others

\* One step of an init that keeps to the claim: the file is created only at
\* a path that holds none, an init that returns Ok leaves exactly
\* INIT_JUSTFILE, and an init that finds a file returns Err(EXIT_FAILURE).
KeepsToClaim ==
  /\ (pc = "fs::write" /\ pc' = "write_all") => job.file = None
  /\ (pc = "write_all" /\ ret' = Some(OkResult)) => job.file' = Some(INIT_JUSTFILE)
  /\ (pc = "init" /\ pc' = "done" /\ job.file # None)
       => ret' = Some(ErrResult(EXIT_FAILURE)) /\ job.file' = job.file

\* C17: Config::init never overwrites an existing justfile: a path that holds
\* a file makes init return Err(EXIT_FAILURE) and leave the content; a path
\* that holds none gets exactly INIT_JUSTFILE, which compiles, from an init that
\* returns Ok; so the file keeps what it held when it first existed, and every
\* init after a successful one fails.
C17_AsStated ==
  /\ [][KeepsToClaim]_vars
  /\ [](Compiler_compile(INIT_JUSTFILE).ok)

\* Two inits on a path without a file: the first has written INIT_JUSTFILE
\* and returned Ok; the second, which had found no file before that, has
\* emptied the file, written five characters and failed.
C17_Witness ==
  /\ job.start = None
  /\ Len(InitCalls) = 2
  /\ InitCalls[1] = [pc |-> "done", ret |-> Some(ErrResult(EXIT_FAILURE))]
  /\ InitCalls[2] = [pc |-> "done", ret |-> Some(OkResult)]
  /\ effects = <<Effect("eprintln", "Wrote justfile"),
                 Effect("eprintln", "Failed to write justfile")>>
  /\ job.file = Some([text |-> <<"d", "e", "f", "a", "u">>])

====
